---- MODULE Spec2Model ----
(***************************************************************************)
(* A model of crywolf/codecrafters-git-rust: the object codec              *)
(* (src/object.rs), the commands that publish objects (hash-object,        *)
(* write-tree, commit-tree, clone) and the readers (cat-file).             *)
(*                                                                         *)
(* Bytes are naturals 0..255.  A 20-byte SHA-1 digest embedded in a byte   *)
(* string is one element RawBase + d, its 40-character hex form is one     *)
(* element HexBase + d (d the digest value); ByteLen counts them as 20 and *)
(* 40 bytes.                                                               *)
(***************************************************************************)
EXTENDS Integers, Sequences, FiniteSets, TLC

VARIABLES
    store,      \* the object files: path -> [data, finished]
    w,          \* the ObjectFile::write call in progress (codec specification)
    tmp,        \* its temporary file
    out,        \* what the last completed operation returned
    nops,       \* operations started so far (bounds the run)
    worktree,   \* the entries of the current directory
    runs,       \* what the successful write-tree runs so far returned
    clone       \* the clone in progress: its step and the pack records left

vars == <<store, w, tmp, out, nops, worktree, runs, clone>>

----------------------------------------------------------------------------
(* Bounds of the model *)

MaxLen == 2         \* longest payload drawn as an input
MaxWrites == 2      \* ObjectFile::write calls per run of the codec specification
MaxRuns == 2        \* commands per run of the write-tree specification
MaxOps == 3         \* commands and clone steps per run of the repository specification
MaxRecords == 2     \* records of a pack

\* the most instructions of a delta drawn, and the most deltas one run applies
MaxInstrs == 2
MaxDeltas == 1

\* the most bytes drawn for the header of a pack record
MaxHeader == 3
\* ls-tree commands in a behaviour
MaxLists == 2

----------------------------------------------------------------------------
(* Bytes and text *)

NUL == 0
SP == 32
LF == 10
PLUS == 43
ZERO == 48
SLASH == 47

DigestLen == 20
HexLen == 40

Sha1Mod == 999983
Sha1Mul == 1009
Sha1Init == 7
RawBase == 256
HexBase == RawBase + Sha1Mod

IsRaw(x) == x >= RawBase /\ x < HexBase
IsHex(x) == x >= HexBase

RECURSIVE ByteLen(_)
ByteLen(s) ==
    IF s = <<>> THEN 0
    ELSE IF Len(s) = 1
    THEN (IF IsHex(s[1]) THEN HexLen ELSE IF IsRaw(s[1]) THEN DigestLen ELSE 1)
    ELSE ByteLen(SubSeq(s, 1, Len(s) \div 2))
         + ByteLen(SubSeq(s, Len(s) \div 2 + 1, Len(s)))

Take(s, n) == SubSeq(s, 1, n)
Drop(s, n) == SubSeq(s, n + 1, Len(s))

\* sequences over S of length at most n
RECURSIVE SeqsUpTo(_, _)
SeqsUpTo(S, n) ==
    IF n = 0 THEN {<<>>}
    ELSE LET shorter == SeqsUpTo(S, n - 1)
         IN shorter \cup {Append(s, x) : s \in shorter, x \in S}

\* format!("{}", n) for an unsigned integer
RECURSIVE Decimal(_)
Decimal(n) ==
    IF n < 10 THEN <<ZERO + n>>
    ELSE Decimal(n \div 10) \o <<ZERO + (n % 10)>>

IsDigit(b) == b >= ZERO /\ b <= ZERO + 9

RECURSIVE DigitsValue(_, _)
DigitsValue(s, acc) ==
    IF s = <<>> THEN acc
    ELSE DigitsValue(Tail(s), acc * 10 + (Head(s) - ZERO))

\* the decimal digits of usize::MAX: a longer number overflows (the numbers
\* of the model have no leading zeros beyond that length)
UsizeDigits == 20

\* str::parse::<usize>: an optional leading '+', then one or more digits;
\* -1 stands for Err(ParseIntError)
ParseUsize(s) ==
    LET digits == IF Len(s) > 1 /\ s[1] = PLUS THEN Tail(s) ELSE s
    IN IF digits = <<>> \/ \E i \in 1..Len(digits) : ~IsDigit(digits[i])
       THEN -1
       ELSE IF Len(digits) > UsizeDigits THEN -1
       ELSE DigitsValue(digits, 0)

\* first index of b in s, 0 when absent
IndexOf(s, b) ==
    IF \E i \in 1..Len(s) : s[i] = b
    THEN CHOOSE i \in 1..Len(s) : s[i] = b /\ \A j \in 1..(i - 1) : s[j] # b
    ELSE 0

\* str::from_utf8 on the model's bytes: every byte is a one-byte code point
Utf8Valid(s) == \A i \in 1..Len(s) : s[i] < 128

----------------------------------------------------------------------------
(* ObjectType and its Display *)

Kinds == {"blob", "tree", "commit", "tag"}

KindName(k) ==
    CASE k = "blob" -> <<98, 108, 111, 98>>
      [] k = "tree" -> <<116, 114, 101, 101>>
      [] k = "commit" -> <<99, 111, 109, 109, 105, 116>>
      [] k = "tag" -> <<116, 97, 103>>
      [] k = "ofs_delta" -> <<111, 115, 102, 95, 100, 101, 108, 116, 97>>
      [] k = "ref_delta" -> <<114, 101, 102, 95, 100, 101, 108, 116, 97>>

\* write!(f, "{} {}\0", header.typ, header.size)
HeaderBytes(typ, size) == KindName(typ) \o <<SP>> \o Decimal(size) \o <<NUL>>

----------------------------------------------------------------------------
(* Sha1: an incremental hash of the bytes fed to it *)

RECURSIVE Sha1Update(_, _)
Sha1Update(h, buf) ==
    IF buf = <<>> THEN h
    ELSE IF Len(buf) = 1 THEN (h * Sha1Mul + buf[1] + 1) % Sha1Mod
    ELSE LET half == Len(buf) \div 2
             fed == Sha1Update(h, SubSeq(buf, 1, half))
         IN IF fed < Sha1Mod THEN Sha1Update(fed, SubSeq(buf, half + 1, Len(buf)))
            ELSE fed

Sha1Digest(bytes) == Sha1Update(Sha1Init, bytes)

\* hex::encode(digest), and the digest a hex name stands for
HexEncode(d) == HexBase + d
HexDecode(x) == x - HexBase

----------------------------------------------------------------------------
(* Paths of object files *)

Roots == {"cwd", "clone"}

\* ObjectFile::hash_to_path: OBJECTS_PATH / hash[..2] / hash[2..]
HashToPath(root, hex) ==
    <<root, HexDecode(hex) % 256, HexDecode(hex) \div 256>>

\* the hex name a path spells: directory name followed by file name
PathName(p) == HexEncode(p[2] + 256 * p[3])

----------------------------------------------------------------------------
(* Object files.  A file holds a zlib stream: data is what a ZlibDecoder   *)
(* yields from it, finished tells whether the stream was ended by          *)
(* ZlibEncoder::finish (an unfinished stream decodes to its data and then  *)
(* fails with an unexpected end of file).                                  *)

NoFile == [exists |-> FALSE, data |-> <<>>, finished |-> FALSE]

NoResult ==
    [op |-> "none", status |-> "none", why |-> "", digest |-> -1,
     typ |-> "", size |-> 0, data |-> <<>>, existed |-> FALSE, log |-> <<>>,
     args |-> <<>>]

Failure(op, status, why) ==
    [NoResult EXCEPT !.op = op, !.status = status, !.why = why]

\* the kind a header names (the match in ObjectFile::read)
MatchKind(typ) ==
    CASE typ = KindName("blob") -> "blob"
      [] typ = KindName("tree") -> "tree"
      [] typ = KindName("commit") -> "commit"
      [] OTHER -> ""

\* ObjectFile::read: open, decode up to the first NUL, parse "<typ> <size>";
\* on success data is everything the returned reader delivers up to its end
ObjectRead(st, root, hex) ==
    LET p == HashToPath(root, hex)
    IN IF p \notin DOMAIN st THEN Failure("read", "err", "opening file")
       ELSE
       LET f == st[p]
           i == IndexOf(f.data, NUL)
       IN IF i = 0 /\ ~f.finished THEN Failure("read", "err", "reading object header")
          ELSE IF i = 0 THEN Failure("read", "panic", "should be null terminated string")
          ELSE
          LET header == Take(f.data, i - 1)
              sp == IndexOf(header, SP)
              typ == Take(header, sp - 1)
              size == ParseUsize(Drop(header, sp))
          IN IF ~Utf8Valid(header)
                THEN Failure("read", "err", "file header is not valid UTF-8")
             ELSE IF sp = 0 THEN Failure("read", "err", "incorrect object header")
             ELSE IF size = -1 THEN Failure("read", "err", "parsing object size in header")
             ELSE IF MatchKind(typ) = "" THEN Failure("read", "err", "unknown object type")
             ELSE [NoResult EXCEPT !.op = "read",
                                   !.status = IF f.finished THEN "ok" ELSE "truncated",
                                   !.digest = hex,
                                   !.typ = MatchKind(typ),
                                   !.size = size,
                                   !.data = Drop(f.data, i)]

----------------------------------------------------------------------------
(* HashWriter and the steps of ObjectFile::write *)

\* (variant: the hasher is fed all of buf, the inner writer takes n bytes)
HashWriterWriteWholeBuf(hw, buf, n) ==
    [writer |-> hw.writer \o Take(buf, n),
     hasher |-> Sha1Update(hw.hasher, buf)]

\* HashWriter::write(buf) when the inner writer accepts n bytes of buf
HashWriterWrite(hw, buf, n) ==
    [writer |-> hw.writer \o Take(buf, n),
     hasher |-> Sha1Update(hw.hasher, Take(buf, n))]

\* write_all: HashWriter::write until buf is consumed, the inner writer
\* accepting the whole rest each time
HashWriterWriteAll(hw, buf) == HashWriterWrite(hw, buf, Len(buf))

\* (variant: the stream is left as it is)
EncoderFinishSkipped(file) == file

\* ZlibEncoder::finish: the stream in the file is ended
EncoderFinish(file) == [file EXCEPT !.finished = TRUE]

\* (variant: the directory of objects is replaced, not the file)
RenameAlone(st, file, p) ==
    [q \in {p} |-> [data |-> file.data, finished |-> file.finished]]

\* fs::rename(tmp_file_path, path): the file at path is now the temp file
Rename(st, file, p) ==
    [q \in DOMAIN st \cup {p} |-> IF q = p THEN [data |-> file.data, finished |-> file.finished]
                                  ELSE st[q]]

NoClone ==
    [pc |-> "none", left |-> 0, pack |-> <<>>, pos |-> 0, head |-> 0,
     sent |-> [recs |-> <<>>, count |-> 0, trailer |-> <<>>], files |-> <<>>,
     made |-> <<>>]

Idle ==
    [pc |-> "idle", typ |-> "", size |-> 0, root |-> "", payload |-> <<>>,
     hdr |-> <<>>, rest |-> <<>>, hasher |-> Sha1Init]

\* the sizes a caller may declare for a payload: its length (commands that
\* build the payload in memory), or a neighbour of it (a pack record's header
\* size, a file that changed after its stat)
DeclaredSizes(payload) ==
    {n \in {ByteLen(payload) - 1, ByteLen(payload), ByteLen(payload) + 1} : n >= 0}

PayloadBytes == {NUL, 97}
Payloads == SeqsUpTo(PayloadBytes, MaxLen)

\* object.write(custom_dir) is called
WBegin(typ, size, payload, root) ==
    /\ w.pc = "idle"
    /\ nops < MaxWrites
    /\ w' = [Idle EXCEPT !.pc = "tempdir", !.typ = typ, !.size = size,
                         !.root = root, !.payload = payload, !.rest = payload]
    /\ nops' = nops + 1
    /\ out' = NoResult
    /\ UNCHANGED <<store, tmp, worktree, runs, clone>>

\* tempfile::tempdir()
WTempDir ==
    /\ w.pc = "tempdir"
    /\ w' = [w EXCEPT !.pc = "tmpfile"]
    /\ UNCHANGED <<store, tmp, out, nops, worktree, runs, clone>>

\* fs::File::create(tmp_file_path), ZlibEncoder::new, HashWriter
WTmpFile ==
    /\ w.pc = "tmpfile"
    /\ tmp' = [exists |-> TRUE, data |-> <<>>, finished |-> FALSE]
    /\ w' = [w EXCEPT !.pc = "header", !.hdr = HeaderBytes(w.typ, w.size),
                      !.hasher = Sha1Init]
    /\ UNCHANGED <<store, out, nops, worktree, runs, clone>>

\* one HashWriter::write call of write!(compressor, "{} {}\0", ..): the
\* encoder accepts n bytes of what is left of the header
WHeader(n) ==
    /\ w.pc = "header"
    /\ n \in 1..Len(w.hdr)
    /\ LET hw == HashWriterWrite([writer |-> tmp.data, hasher |-> w.hasher], w.hdr, n)
       IN /\ tmp' = [tmp EXCEPT !.data = hw.writer]
          /\ w' = [w EXCEPT !.hasher = hw.hasher,
                            !.hdr = Drop(w.hdr, n),
                            !.pc = IF n = Len(w.hdr) THEN "copy" ELSE "header"]
    /\ UNCHANGED <<store, out, nops, worktree, runs, clone>>

\* one HashWriter::write call of std::io::copy(&mut self.reader, &mut compressor)
WCopy(n) ==
    /\ w.pc = "copy"
    /\ w.rest # <<>>
    /\ n \in 1..Len(w.rest)
    /\ LET hw == HashWriterWrite([writer |-> tmp.data, hasher |-> w.hasher], w.rest, n)
       IN /\ tmp' = [tmp EXCEPT !.data = hw.writer]
          /\ w' = [w EXCEPT !.hasher = hw.hasher, !.rest = Drop(w.rest, n)]
    /\ UNCHANGED <<store, out, nops, worktree, runs, clone>>

\* the reader is at its end: compressor.writer.finish(), hasher.finalize()
WFinish ==
    /\ w.pc = "copy"
    /\ w.rest = <<>>
    /\ tmp' = EncoderFinish(tmp)
    /\ w' = [w EXCEPT !.pc = "mkdir"]
    /\ UNCHANGED <<store, out, nops, worktree, runs, clone>>

\* fs::create_dir_all(.git/objects/<aa>)
WMkdir ==
    /\ w.pc = "mkdir"
    /\ w' = [w EXCEPT !.pc = "rename"]
    /\ UNCHANGED <<store, tmp, out, nops, worktree, runs, clone>>

\* fs::rename(tmp_file_path, &path); Ok(digest)
WRename ==
    /\ w.pc = "rename"
    /\ LET hex == HexEncode(w.hasher)
           p == HashToPath(w.root, hex)
       IN /\ store' = Rename(store, tmp, p)
          /\ out' = [NoResult EXCEPT !.op = "write", !.status = "ok", !.digest = hex,
                                     !.typ = w.typ, !.size = w.size,
                                     !.data = w.payload,
                                     !.existed = p \in DOMAIN store]
    /\ tmp' = NoFile
    /\ w' = Idle
    /\ UNCHANGED <<nops, worktree, runs, clone>>

\* any step returns an I/O error: write returns Err, the TempDir is dropped
WFail ==
    /\ w.pc # "idle"
    /\ out' = Failure("write", "err", w.pc)
    /\ tmp' = NoFile
    /\ w' = Idle
    /\ UNCHANGED <<store, nops, worktree, runs, clone>>

\* the process stops at any step of the write
WCrash ==
    /\ w.pc # "idle"
    /\ out' = Failure("write", "crashed", w.pc)
    /\ tmp' = NoFile
    /\ w' = Idle
    /\ UNCHANGED <<store, nops, worktree, runs, clone>>

\* ObjectFile::read(hash, custom_dir), the reader drained to its end
ReadObject(root, hex) ==
    /\ out' = ObjectRead(store, root, hex)
    /\ UNCHANGED <<store, w, tmp, nops, worktree, runs, clone>>

\* cat-file (commands/cat_file.rs): object_type is the kind the caller
\* expects ("" for none), mode one of "type", "size", "content"
CatFileResult(st, hex, object_type, mode) ==
    LET object == ObjectRead(st, "cwd", hex)
    IN IF object.status \notin {"ok", "truncated"}
          THEN [object EXCEPT !.op = "cat-file"]
       ELSE IF object_type # "" /\ object_type # object.typ
          THEN Failure("cat-file", "err", "File is not")
       ELSE IF mode = "type"
          THEN [object EXCEPT !.op = "cat-file", !.status = "ok", !.why = mode,
                              !.data = KindName(object.typ)]
       ELSE IF mode = "size"
          THEN [object EXCEPT !.op = "cat-file", !.status = "ok", !.why = mode,
                              !.data = Decimal(object.size)]
       ELSE IF object.status = "truncated"
          THEN Failure("cat-file", "err", "streaming file content to stdin")
       ELSE [object EXCEPT !.op = "cat-file", !.why = mode]

CatFile(hex, object_type, mode) ==
    /\ w.pc = "idle"
    /\ out' = CatFileResult(store, hex, object_type, mode)
    /\ UNCHANGED <<store, w, tmp, nops, worktree, runs, clone>>

KnownHex == {PathName(p) : p \in DOMAIN store} \cup {HexEncode(0)}

EmptyStore == [p \in {} |-> NoFile]

CodecInit ==
    /\ store = EmptyStore
    /\ w = Idle
    /\ tmp = NoFile
    /\ out = NoResult
    /\ nops = 0
    /\ worktree = {}
    /\ runs = {}
    /\ clone = NoClone

CodecNext ==
    \/ \E typ \in Kinds, payload \in Payloads :
         \E size \in DeclaredSizes(payload) : WBegin(typ, size, payload, "cwd")
    \/ WTempDir
    \/ WTmpFile
    \/ \E n \in 1..Len(w.hdr) : WHeader(n)
    \/ \E n \in 1..Len(w.rest) : WCopy(n)
    \/ WFinish
    \/ WMkdir
    \/ WRename
    \/ WFail
    \/ WCrash
    \/ \E hex \in KnownHex : ReadObject("cwd", hex)
    \/ \E hex \in KnownHex, object_type \in {"", "blob"}, mode \in {"type", "size", "content"} :
         CatFile(hex, object_type, mode)

SpecCodec == CodecInit /\ [][CodecNext]_vars

----------------------------------------------------------------------------
(* ObjectFile::hash, ObjectFile::write and ObjectFile::from_file as whole   *)
(* calls, for the commands that make them                                  *)

NewHashWriter == [writer |-> <<>>, hasher |-> Sha1Init]

\* ObjectFile::hash: header and payload through a HashWriter over io::sink()
ObjectHash(typ, size, payload) ==
    HashWriterWriteAll(HashWriterWriteAll(NewHashWriter, HeaderBytes(typ, size)),
                       payload).hasher

\* (variant: the digest is taken over the payload alone)
ObjectWritePayloadDigest(st, root, typ, size, payload) ==
    LET hw == HashWriterWriteAll(HashWriterWriteAll(NewHashWriter, HeaderBytes(typ, size)),
                                 payload)
        file == EncoderFinish([exists |-> TRUE, data |-> hw.writer, finished |-> FALSE])
        p == HashToPath(root, HexEncode(Sha1Digest(payload)))
    IN [digest |-> Sha1Digest(payload), st |-> Rename(st, file, p), existed |-> p \in DOMAIN st]

\* (variant: the digest is returned and the file is not yet in the store)
ObjectWriteDeferred(st, root, typ, size, payload) ==
    LET hw == HashWriterWriteAll(HashWriterWriteAll(NewHashWriter, HeaderBytes(typ, size)),
                                 payload)
        p == HashToPath(root, HexEncode(hw.hasher))
    IN [digest |-> hw.hasher, st |-> st, existed |-> p \in DOMAIN st]

\* ObjectFile::write when no step fails: the digest and the store afterwards
ObjectWrite(st, root, typ, size, payload) ==
    LET hw == HashWriterWriteAll(HashWriterWriteAll(NewHashWriter, HeaderBytes(typ, size)),
                                 payload)
        file == EncoderFinish([exists |-> TRUE, data |-> hw.writer, finished |-> FALSE])
        p == HashToPath(root, HexEncode(hw.hasher))
    IN [digest |-> hw.hasher, st |-> Rename(st, file, p), existed |-> p \in DOMAIN st]

\* ObjectFile::from_file: a blob whose size is the file's size at stat time
\* and whose reader is the file capped at that size (f.take(stat.size()));
\* now is the file's content while it is streamed
FromFile(atStat, now) ==
    [typ |-> "blob", size |-> ByteLen(atStat),
     payload |-> Take(now, IF Len(now) < Len(atStat) THEN Len(now) ELSE Len(atStat))]

----------------------------------------------------------------------------
(* The working directory *)

NameGit == <<46, 103, 105, 116>>
NameTarget == <<116, 97, 114, 103, 101, 116>>
NameA == <<97>>
NameATxt == <<97, 46, 116, 120, 116>>
NameAb == <<97, 98>>
NameX == <<120>>

File(n, d) == [name |-> n, kind |-> "file", data |-> d, kids |-> {}]
Symlink(n, d) == [name |-> n, kind |-> "symlink", data |-> d, kids |-> {}]
Dir(n, K) == [name |-> n, kind |-> "dir", data |-> <<>>, kids |-> K]

\* the directories drawn: at most three levels below the root
FileContents == SeqsUpTo({97}, MaxLen - 1)
KidSets2 == {{}, {File(NameX, <<>>)}}
KidSets1 ==
    {X \cup T :
        X \in {{}, {File(NameX, <<97>>)}} \cup {{Dir(NameX, K)} : K \in KidSets2},
        T \in {{}, {Dir(NameTarget, {File(NameX, <<>>)})}}}
WorkTrees ==
    {A \cup B \cup C \cup {Dir(NameGit, {})} :
        A \in {{}, {File(NameA, <<97>>)}} \cup {{Dir(NameA, K)} : K \in KidSets1},
        B \in {{}} \cup {{File(NameATxt, d)} : d \in FileContents}
                   \cup {{Symlink(NameATxt, <<97>>)}},
        C \in {{}, {File(NameAb, <<>>)}, {Dir(NameAb, {})}}}

RECURSIVE AllFiles(_)
AllFiles(kids) ==
    {e \in kids : e.kind # "dir"}
    \cup UNION {AllFiles(e.kids) : e \in {x \in kids : x.kind = "dir"}}

\* the sequences that hold each element of S once
Perms(S) ==
    {f \in [1..Cardinality(S) -> S] : \A i, j \in 1..Cardinality(S) : f[i] = f[j] => i = j}

\* fs::read_dir: the children, in the order ord gives their names
RECURSIVE Enumerate(_, _)
Enumerate(kids, ord) ==
    IF ord = <<>> THEN <<>>
    ELSE (IF \E e \in kids : e.name = Head(ord)
          THEN <<CHOOSE e \in kids : e.name = Head(ord)>>
          ELSE <<>>) \o Enumerate(kids, Tail(ord))

----------------------------------------------------------------------------
(* write-tree (commands/write_tree.rs) *)

\* Vec<u8>::cmp(a, b) = Less
RECURSIVE LexLess(_, _)
LexLess(a, b) ==
    IF b = <<>> THEN FALSE
    ELSE IF a = <<>> THEN TRUE
    ELSE IF Head(a) # Head(b) THEN Head(a) < Head(b)
    ELSE LexLess(Tail(a), Tail(b))

\* (variant: the names compared as they are)
SortKeyPlain(e) == e.name

\* the name the sort closure compares: a directory's gets b'/' pushed
SortKey(e) == IF e.kind = "dir" THEN e.name \o <<SLASH>> ELSE e.name

RECURSIVE InsertEntry(_, _)
InsertEntry(sorted, e) ==
    IF sorted = <<>> THEN <<e>>
    ELSE IF LexLess(SortKey(e), SortKey(Head(sorted))) THEN <<e>> \o sorted
    ELSE <<Head(sorted)>> \o InsertEntry(Tail(sorted), e)

\* entries.sort_unstable_by(..): no two entries of a directory compare equal
RECURSIVE SortEntries(_)
SortEntries(entries) ==
    IF entries = <<>> THEN <<>>
    ELSE InsertEntry(SortEntries(Tail(entries)), Head(entries))

\* the loop over read_dir: .git and target are skipped
RECURSIVE RetainEntries(_)
RetainEntries(entries) ==
    IF entries = <<>> THEN <<>>
    ELSE (IF Head(entries).name = NameGit \/ Head(entries).name = NameTarget
          THEN <<>> ELSE <<Head(entries)>>) \o RetainEntries(Tail(entries))

EntryMode(e) ==
    IF e.kind = "dir" THEN <<52, 48, 48, 48, 48>>
    ELSE IF e.kind = "symlink" THEN <<49, 50, 48, 48, 48, 48>>
    ELSE <<49, 48, 48, 54, 52, 52>>

\* <mode> <name>\0<20_byte_sha>
TreeEntryBytes(e, d) == EntryMode(e) \o <<SP>> \o e.name \o <<NUL>> \o <<RawBase + d>>

\* hash_object::invoke(path, write) without an I/O error: the digest and the store
HashObjectFile(st, atStat, now, write) ==
    LET object == FromFile(atStat, now)
    IN IF write
       THEN ObjectWrite(st, "cwd", object.typ, object.size, object.payload)
       ELSE [digest |-> ObjectHash(object.typ, object.size, object.payload),
             st |-> st, existed |-> FALSE]

\* write_tree_for(path) on the directory with children kids.  fuel is the
\* number of ObjectFile::write calls that succeed before one returns an I/O
\* error; log lists the trees published, in order: the directory's path, the
\* entries emitted (name, kind, digest) and the tree's digest.
RECURSIVE WriteTreeFor(_, _, _, _, _)
RECURSIVE EmitEntries(_, _, _, _)

EmitEntries(path, sorted, acc, ord) ==
    IF sorted = <<>> \/ acc.err THEN acc
    ELSE
    LET e == Head(sorted)
    IN IF e.kind = "dir"
       THEN LET r == WriteTreeFor(Append(path, e.name), e.kids, acc.st, acc.fuel, ord)
                after == [acc EXCEPT !.st = r.st, !.fuel = r.fuel, !.log = acc.log \o r.log]
            IN IF r.status = "err" THEN [after EXCEPT !.err = TRUE]
               ELSE IF r.status = "none"
                  THEN EmitEntries(path, Tail(sorted), after, ord)
               ELSE EmitEntries(path, Tail(sorted),
                        [after EXCEPT !.tree = acc.tree \o TreeEntryBytes(e, r.digest),
                                      !.entries = Append(acc.entries,
                                          [name |-> e.name, kind |-> e.kind, digest |-> r.digest])],
                        ord)
       ELSE LET h == HashObjectFile(acc.st, e.data, e.data, FALSE)
            IN EmitEntries(path, Tail(sorted),
                   [acc EXCEPT !.st = h.st,
                               !.tree = acc.tree \o TreeEntryBytes(e, h.digest),
                               !.entries = Append(acc.entries,
                                   [name |-> e.name, kind |-> e.kind, digest |-> h.digest])],
                   ord)

\* (variant: a tree is written for a directory without entries too)
WriteTreeForAlways(path, kids, st, fuel, ord) ==
    LET sorted == SortEntries(RetainEntries(Enumerate(kids, ord)))
        acc == EmitEntries(path, sorted,
                   [st |-> st, fuel |-> fuel, tree |-> <<>>, entries |-> <<>>,
                    log |-> <<>>, err |-> FALSE], ord)
    IN IF acc.err \/ acc.fuel = 0
          THEN [status |-> "err", digest |-> -1, st |-> acc.st, fuel |-> acc.fuel, log |-> acc.log]
       ELSE LET wr == ObjectWrite(acc.st, "cwd", "tree", ByteLen(acc.tree), acc.tree)
            IN [status |-> "some", digest |-> wr.digest, st |-> wr.st, fuel |-> acc.fuel - 1,
                log |-> Append(acc.log,
                           [path |-> path, entries |-> acc.entries, digest |-> wr.digest])]

WriteTreeFor(path, kids, st, fuel, ord) ==
    LET sorted == SortEntries(RetainEntries(Enumerate(kids, ord)))
        acc == EmitEntries(path, sorted,
                   [st |-> st, fuel |-> fuel, tree |-> <<>>, entries |-> <<>>,
                    log |-> <<>>, err |-> FALSE], ord)
    IN IF acc.err
          THEN [status |-> "err", digest |-> -1, st |-> acc.st, fuel |-> acc.fuel, log |-> acc.log]
       ELSE IF acc.tree = <<>>
          THEN [status |-> "none", digest |-> -1, st |-> acc.st, fuel |-> acc.fuel, log |-> acc.log]
       ELSE IF acc.fuel = 0
          THEN [status |-> "err", digest |-> -1, st |-> acc.st, fuel |-> 0, log |-> acc.log]
       ELSE LET wr == ObjectWrite(acc.st, "cwd", "tree", ByteLen(acc.tree), acc.tree)
            IN [status |-> "some", digest |-> wr.digest, st |-> wr.st, fuel |-> acc.fuel - 1,
                log |-> Append(acc.log,
                           [path |-> path, entries |-> acc.entries, digest |-> wr.digest])]

\* the orders in which read_dir may enumerate: every order of the names of
\* the root, and the names below it in one order and in the other
ReadDirOrders ==
    {top \o <<NameX, NameTarget, NameGit>> : top \in Perms({NameA, NameATxt, NameAb})}
    \cup {<<NameGit, NameTarget, NameX, NameAb, NameATxt, NameA>>}

\* read_dir hands the retained children of the root over in the order of the tree
InTreeOrder(kids, ord) ==
    RetainEntries(Enumerate(kids, ord)) = SortEntries(RetainEntries(Enumerate(kids, ord)))

\* the most trees one write-tree writes here: the root, a and a/x
MaxTrees == 3

\* write-tree: write_tree_for(".") and the digest printed
WriteTree(ord, fuel) ==
    /\ w.pc = "idle"
    /\ nops' = nops + 1
    /\ LET r == WriteTreeFor(<<>>, worktree, store, fuel, ord)
       IN /\ store' = r.st
          /\ out' = IF r.status = "some"
                    THEN [NoResult EXCEPT !.op = "write-tree", !.status = "ok",
                                          !.digest = HexEncode(r.digest), !.log = r.log]
                    ELSE IF r.status = "none"
                    THEN [Failure("write-tree", "err",
                                  "asked to make tree object for empty tree")
                             EXCEPT !.log = r.log]
                    ELSE [Failure("write-tree", "err", "construct root tree object")
                             EXCEPT !.log = r.log]
          /\ runs' = IF r.status = "some"
                     THEN runs \cup {[inOrder |-> InTreeOrder(worktree, ord),
                                       digest |-> r.digest, log |-> r.log]}
                     ELSE runs
    /\ UNCHANGED <<w, tmp, worktree, clone>>

\* hash-object [-w] <file>; now is the file's content when it is streamed
HashObject(file, now, write) ==
    /\ w.pc = "idle"
    /\ nops' = nops + 1
    /\ LET r == HashObjectFile(store, file.data, now, write)
           object == FromFile(file.data, now)
       IN /\ store' = r.st
          /\ out' = [NoResult EXCEPT !.op = "hash-object", !.status = "ok",
                                     !.why = IF write THEN "write" ELSE "hash",
                                     !.digest = HexEncode(r.digest),
                                     !.typ = object.typ, !.size = object.size,
                                     !.data = object.payload, !.existed = r.existed]
    /\ UNCHANGED <<w, tmp, worktree, runs, clone>>

TreeInit ==
    /\ store = EmptyStore
    /\ w = Idle
    /\ tmp = NoFile
    /\ out = NoResult
    /\ nops = 0
    /\ worktree \in WorkTrees
    /\ runs = {}
    /\ clone = NoClone

TreeNext ==
    \/ \E ord \in ReadDirOrders, fuel \in 0..MaxTrees : nops < MaxRuns /\ WriteTree(ord, fuel)
    \/ \E file \in AllFiles(worktree) : nops < MaxRuns /\ HashObject(file, file.data, TRUE)

SpecTree == TreeInit /\ [][TreeNext]_vars

----------------------------------------------------------------------------
(* commit-tree (commands/commit_tree.rs) *)

Identity ==
    <<99, 114, 121, 119, 111, 108, 102, 32, 60, 99, 114, 121, 46, 119, 111, 108, 102,
      64, 99, 101, 110, 116, 114, 117, 109, 46, 99, 122, 62>>

NoParent == -1

\* the String the writeln! calls build; tree_hash and parent_hash are hex names
CommitBody(tree_hash, message, parent_hash, secs) ==
    <<116, 114, 101, 101, 32>> \o <<tree_hash>> \o <<LF>>
    \o (IF parent_hash # NoParent
        THEN <<112, 97, 114, 101, 110, 116, 32>> \o <<parent_hash>> \o <<LF>>
        ELSE <<>>)
    \o <<97, 117, 116, 104, 111, 114, 58, 32>> \o Identity \o <<SP>> \o Decimal(secs)
    \o <<32, 43, 48, 48, 48, 48, 10>>
    \o <<99, 111, 109, 109, 105, 116, 116, 101, 114, 32>> \o Identity \o <<SP>> \o Decimal(secs)
    \o <<32, 43, 48, 48, 48, 48, 10>>
    \o <<LF>> \o message \o <<LF>>

\* commit-tree <tree_hash> -m <message> [-p <parent_hash>] at time secs; ok
\* tells whether ObjectFile::write succeeds
CommitTree(tree_hash, message, parent_hash, secs, ok) ==
    /\ w.pc = "idle"
    /\ nops < MaxOps
    /\ nops' = nops + 1
    /\ LET commit == CommitBody(tree_hash, message, parent_hash, secs)
           wr == ObjectWrite(store, "cwd", "commit", ByteLen(commit), commit)
       IN IF HashToPath("cwd", tree_hash) \notin DOMAIN store
          THEN /\ out' = Failure("commit-tree", "err", "tree object does not exist")
               /\ store' = store
          ELSE IF ~ok
          THEN /\ out' = Failure("commit-tree", "err", "write")
               /\ store' = store
          ELSE /\ store' = wr.st
               /\ out' = [NoResult EXCEPT
                            !.op = "commit-tree", !.status = "ok",
                            !.digest = HexEncode(wr.digest), !.typ = "commit",
                            !.size = ByteLen(commit), !.data = commit,
                            !.existed = wr.existed,
                            !.args = [tree |-> tree_hash, message |-> message,
                                      parent |-> parent_hash, secs |-> secs]]
    /\ UNCHANGED <<w, tmp, worktree, runs, clone>>

----------------------------------------------------------------------------
(* clone (commands/clone.rs): the loop over the records of the pack.  A    *)
(* record is taken here after its header is decoded and its zlib stream    *)
(* inflated: [typ, size, data, base].                                      *)

RECURSIVE Pow2(_)
Pow2(k) == IF k = 0 THEN 1 ELSE 2 * Pow2(k - 1)

Bit(b, i) == (b \div Pow2(i)) % 2

\* the continuation bytes of a length: 7 bits each, shifted by 7, 14, ...
RECURSIVE VarintMore(_, _, _)
VarintMore(s, value, shift) ==
    IF s = <<>> THEN [ok |-> FALSE, value |-> value, rest |-> s]
    ELSE LET more == value + (Head(s) % 128) * Pow2(shift)
         IN IF Head(s) >= 128 THEN VarintMore(Tail(s), more, shift + 7)
            ELSE [ok |-> TRUE, value |-> more, rest |-> Tail(s)]

\* a source or target length of a delta; ok is FALSE when get_u8 runs out of bytes
DeltaLength(s) ==
    IF s = <<>> THEN [ok |-> FALSE, value |-> 0, rest |-> s]
    ELSE IF Head(s) >= 128 THEN VarintMore(Tail(s), Head(s) % 128, 7)
    ELSE [ok |-> TRUE, value |-> Head(s) % 128, rest |-> Tail(s)]

\* the offset (bits 0..3) or length (bits 4..6) bytes of a copy instruction:
\* byte i is read when its flag bit is set, and stands for 0 otherwise
RECURSIVE CopyOperand(_, _, _, _, _, _)
CopyOperand(s, instruction, firstBit, count, i, value) ==
    IF i = count THEN [ok |-> TRUE, value |-> value, rest |-> s]
    ELSE IF Bit(instruction, firstBit + i) = 0
       THEN CopyOperand(s, instruction, firstBit, count, i + 1, value)
    ELSE IF s = <<>> THEN [ok |-> FALSE, value |-> value, rest |-> s]
    ELSE CopyOperand(Tail(s), instruction, firstBit, count, i + 1,
                     value + Head(s) * Pow2(8 * i))

\* the instruction loop of process_delta_object
RECURSIVE DeltaLoop(_, _, _)
DeltaLoop(delta, base, new) ==
    IF delta = <<>> THEN [status |-> "panic", data |-> new]
    ELSE
    LET instruction == Head(delta)
        rest == Tail(delta)
    IN IF instruction < 128
       THEN IF Len(rest) < instruction
            THEN [status |-> "err", data |-> new]
            ELSE LET grown == new \o Take(rest, instruction)
                     left == Drop(rest, instruction)
                 IN IF left = <<>> THEN [status |-> "ok", data |-> grown]
                    ELSE DeltaLoop(left, base, grown)
       ELSE LET offset == CopyOperand(rest, instruction, 0, 4, 0, 0)
                length == CopyOperand(offset.rest, instruction, 4, 3, 0, 0)
            IN IF ~offset.ok \/ ~length.ok THEN [status |-> "panic", data |-> new]
               ELSE IF offset.value + length.value > Len(base)
                  THEN [status |-> "err", data |-> new]
               ELSE LET grown == new \o SubSeq(base, offset.value + 1,
                                               offset.value + length.value)
                    IN IF length.rest = <<>> THEN [status |-> "ok", data |-> grown]
                       ELSE DeltaLoop(length.rest, base, grown)

\* (variant: the new object is a blob whatever the base is)
DeltaObjectBlob(delta, base) ==
    LET source == DeltaLength(delta)
        target == DeltaLength(source.rest)
        made == DeltaLoop(target.rest, base.data, <<>>)
    IN IF ~source.ok \/ ~target.ok THEN [status |-> "panic", typ |-> "", data |-> <<>>]
       ELSE IF base.size # source.value THEN [status |-> "err", typ |-> "", data |-> <<>>]
       ELSE IF made.status # "ok" THEN [status |-> made.status, typ |-> "", data |-> <<>>]
       ELSE IF Len(made.data) # target.value THEN [status |-> "err", typ |-> "", data |-> <<>>]
       ELSE [status |-> "ok", typ |-> "blob", data |-> made.data]

\* (variant: the two lengths are read and not compared with anything)
DeltaObjectUnchecked(delta, base) ==
    LET source == DeltaLength(delta)
        target == DeltaLength(source.rest)
        made == DeltaLoop(target.rest, base.data, <<>>)
    IN IF ~source.ok \/ ~target.ok THEN [status |-> "panic", typ |-> "", data |-> <<>>]
       ELSE IF made.status # "ok" THEN [status |-> made.status, typ |-> "", data |-> <<>>]
       ELSE [status |-> "ok", typ |-> base.typ, data |-> made.data]

\* process_delta_object up to new_obj.write: the object to publish
DeltaObject(delta, base) ==
    LET source == DeltaLength(delta)
        target == DeltaLength(source.rest)
        made == DeltaLoop(target.rest, base.data, <<>>)
    IN IF ~source.ok \/ ~target.ok THEN [status |-> "panic", typ |-> "", data |-> <<>>]
       ELSE IF base.size # source.value THEN [status |-> "err", typ |-> "", data |-> <<>>]
       ELSE IF made.status # "ok" THEN [status |-> made.status, typ |-> "", data |-> <<>>]
       ELSE IF Len(made.data) # target.value THEN [status |-> "err", typ |-> "", data |-> <<>>]
       ELSE [status |-> "ok", typ |-> base.typ, data |-> made.data]

\* create_git_dirs(dir), get_pack_data, num_obj = n
CloneBegin(n) ==
    /\ w.pc = "idle"
    /\ nops < MaxOps
    /\ nops' = nops + 1
    /\ clone.pc = "none"
    /\ clone' = [NoClone EXCEPT !.pc = "records", !.left = n]
    /\ out' = NoResult
    /\ UNCHANGED <<store, w, tmp, worktree, runs>>

\* one record of the loop, its header decoded: the branch for its type.
\* rec.inflates tells whether the bytes at the cursor, where the decoder is
\* set up, are a zlib stream; rec.data is what that stream inflates to.
RecordOutcome(st, rec) ==
    IF rec.typ = "ofs_delta"
    THEN IF rec.inflates
         THEN [st |-> st, ok |-> TRUE,
               out |-> [NoResult EXCEPT !.op = "clone", !.status = "ok", !.why = "skipped"]]
         ELSE [st |-> st, ok |-> FALSE,
               out |-> Failure("clone", "err", "streaming object's data to sink")]
    ELSE IF rec.typ = "ref_delta"
    THEN LET base == ObjectRead(st, "clone", rec.base)
             new == DeltaObject(rec.data, base)
             wr == ObjectWrite(st, "clone", new.typ, ByteLen(new.data), new.data)
         IN IF base.status # "ok"
            THEN [st |-> st, ok |-> FALSE, out |-> [base EXCEPT !.op = "clone"]]
            ELSE IF ~rec.inflates
            THEN [st |-> st, ok |-> FALSE,
                  out |-> Failure("clone", "err", "processing delta object")]
            ELSE IF new.status # "ok"
            THEN [st |-> st, ok |-> FALSE,
                  out |-> Failure("clone", new.status, "processing delta object")]
            ELSE [st |-> wr.st, ok |-> TRUE,
                  out |-> [NoResult EXCEPT !.op = "clone", !.status = "ok",
                                           !.why = "delta",
                                           !.digest = HexEncode(wr.digest),
                                           !.typ = new.typ, !.size = ByteLen(new.data),
                                           !.data = new.data, !.existed = wr.existed]]
    ELSE IF ~rec.inflates
    THEN [st |-> st, ok |-> FALSE, out |-> Failure("clone", "err", "streaming object's content to file on disk")]
    ELSE LET wr == ObjectWrite(st, "clone", rec.typ, rec.size, rec.data)
         IN [st |-> wr.st, ok |-> TRUE,
             out |-> [NoResult EXCEPT !.op = "clone", !.status = "ok",
                                      !.why = "regular",
                                      !.digest = HexEncode(wr.digest),
                                      !.typ = rec.typ, !.size = rec.size,
                                      !.data = rec.data, !.existed = wr.existed]]

\* one turn of the loop over the records
CloneRecord(rec) ==
    /\ w.pc = "idle"
    /\ nops < MaxOps
    /\ nops' = nops + 1
    /\ clone.pc = "records"
    /\ clone.left > 0
    /\ \E done \in {RecordOutcome(store, rec)} :
          /\ store' = done.st
          /\ out' = done.out
          /\ clone' = IF done.ok THEN [clone EXCEPT !.left = clone.left - 1]
                      ELSE [clone EXCEPT !.pc = "failed"]
    /\ UNCHANGED <<w, tmp, worktree, runs>>

----------------------------------------------------------------------------
(* The repository specification: the commands in any order *)

HexNames(root) == {PathName(p) : p \in {q \in DOMAIN store : q[1] = root}}

\* a hex name no object has
MissingHex == HexEncode(0)

RepoWorkTrees ==
    {{Dir(NameGit, {}), File(NameATxt, <<97>>)},
     {Dir(NameGit, {}), Dir(NameA, {File(NameX, <<97>>)}), File(NameAb, <<>>)}}

\* a file's content while it is streamed: as at stat time, cut, or grown
ReadVariants(d) == {d, Take(d, Len(d) - 1), Append(d, 98)}

RecordPayloads == {<<>>, <<97, 98>>}

\* deltas against a base of two bytes: copy 2 from offset 0 then insert 'c';
\* the same with a target length of 5; insert 'c' against a base of one
\* byte; a delta that ends after its source length
Deltas ==
    {<<2, 3, 144, 2, 1, 99>>, <<2, 5, 144, 2, 1, 99>>, <<1, 1, 1, 99>>, <<2>>}

PackRecords ==
    UNION {{[typ |-> t, size |-> n, data |-> d, base |-> MissingHex, inflates |-> TRUE] :
                t \in Kinds, n \in {Len(d), Len(d) + 1}} : d \in RecordPayloads}
    \cup {[typ |-> "ref_delta", size |-> Len(d), data |-> d, base |-> b, inflates |-> TRUE] :
            d \in Deltas, b \in HexNames("clone") \cup {MissingHex}}
    \cup {[typ |-> "ofs_delta", size |-> 0, data |-> <<>>, base |-> MissingHex,
            inflates |-> z] : z \in BOOLEAN}

RepoInit ==
    /\ store = EmptyStore
    /\ w = Idle
    /\ tmp = NoFile
    /\ out = NoResult
    /\ nops = 0
    /\ worktree \in RepoWorkTrees
    /\ runs = {}
    /\ clone = NoClone

RepoNext ==
    \/ \E file \in AllFiles(worktree), write \in BOOLEAN :
         \E now \in ReadVariants(file.data) : nops < MaxOps /\ HashObject(file, now, write)
    \/ \E ord \in ReadDirOrders, fuel \in {0, MaxTrees} : nops < MaxOps /\ WriteTree(ord, fuel)
    \/ \E tree_hash \in HexNames("cwd") \cup {MissingHex},
          parent_hash \in HexNames("cwd") \cup {NoParent},
          message \in {<<>>, <<105, 110, 105, 116>>}, secs \in {1700000000}, ok \in BOOLEAN :
         CommitTree(tree_hash, message, parent_hash, secs, ok)
    \/ \E n \in 0..MaxRecords : CloneBegin(n)
    \/ \E rec \in PackRecords : CloneRecord(rec)

SpecRepo == RepoInit /\ [][RepoNext]_vars

----------------------------------------------------------------------------
(* clone from the bytes of the pack (commands/clone.rs, invoke).  pack is  *)
(* what get_pack_data returns: the bytes after "PACK" and the version.  A  *)
(* zlib stream is the element ZBegin, what it inflates to, and the element *)
(* ZEnd: one element of the pack stands for one byte of it.                *)

ZBegin == 0 - 1
ZEnd == 0 - 2

IsByte(x) == x >= 0 /\ x < 256

\* pack_data.get_u32(): big-endian; panics when fewer than 4 bytes remain
GetU32(s) ==
    IF Len(s) < 4 THEN [ok |-> FALSE, value |-> 0, rest |-> s]
    ELSE [ok |-> TRUE,
          value |-> ((s[1] * 256 + s[2]) * 256 + s[3]) * 256 + s[4],
          rest |-> Drop(s, 4)]

\* the match on bits 6..4 of the first byte of a record
ObjType(code) ==
    CASE code = 1 -> "commit"
      [] code = 2 -> "tree"
      [] code = 3 -> "blob"
      [] code = 4 -> "tag"
      [] code = 6 -> "ofs_delta"
      [] code = 7 -> "ref_delta"
      [] OTHER -> ""

\* (variant: the continuation bytes are shifted by 7, 14, ... as in a delta)
PackObjectHeaderShift7(s) ==
    IF s = <<>> THEN [status |-> "panic", typ |-> "", size |-> 0, rest |-> s]
    ELSE LET b == Head(s)
             typ == ObjType((b % 128) \div 16)
             size == IF b >= 128 THEN VarintMore(Tail(s), b % 16, 7)
                     ELSE [ok |-> TRUE, value |-> b % 16, rest |-> Tail(s)]
         IN IF typ = "" THEN [status |-> "err", typ |-> "", size |-> 0, rest |-> Tail(s)]
            ELSE IF ~size.ok THEN [status |-> "panic", typ |-> typ, size |-> 0, rest |-> <<>>]
            ELSE [status |-> "ok", typ |-> typ, size |-> size.value, rest |-> size.rest]

\* the type and size at the head of a record; get_u8 panics when the bytes
\* run out, a type that is none of the six is an error before the size is read
PackObjectHeader(s) ==
    IF s = <<>> THEN [status |-> "panic", typ |-> "", size |-> 0, rest |-> s]
    ELSE LET b == Head(s)
             typ == ObjType((b % 128) \div 16)
             size == IF b >= 128 THEN VarintMore(Tail(s), b % 16, 4)
                     ELSE [ok |-> TRUE, value |-> b % 16, rest |-> Tail(s)]
         IN IF typ = "" THEN [status |-> "err", typ |-> "", size |-> 0, rest |-> Tail(s)]
            ELSE IF ~size.ok THEN [status |-> "panic", typ |-> typ, size |-> 0, rest |-> <<>>]
            ELSE [status |-> "ok", typ |-> typ, size |-> size.value, rest |-> size.rest]

\* the digest 20 bytes are: every digest of the model fits the last three
\* bytes, so any other 20 bytes are a name no object has
DigestOfBytes(b) ==
    IF (\A i \in 1..17 : b[i] = 0) /\ (\A i \in 18..20 : IsByte(b[i]))
    THEN (b[18] * 256 + b[19]) * 256 + b[20]
    ELSE Sha1Mod

\* hex::encode(pack_data.get(..20)) and advance(20), for a REF_DELTA only
BaseObjHash(typ, s) ==
    IF typ # "ref_delta" THEN [ok |-> TRUE, hex |-> MissingHex, rest |-> s]
    ELSE IF Len(s) < DigestLen THEN [ok |-> FALSE, hex |-> MissingHex, rest |-> s]
    ELSE [ok |-> TRUE, hex |-> HexEncode(DigestOfBytes(Take(s, DigestLen))),
          rest |-> Drop(s, DigestLen)]

\* (variant: the bytes consumed are taken to be as many as the bytes delivered)
InflateDeclared(s, eofIsError) ==
    LET e == IndexOf(s, ZEnd)
    IN IF s # <<>> /\ Head(s) = ZBegin /\ e > 0
       THEN [ok |-> TRUE, data |-> SubSeq(s, 2, e - 1), total_in |-> e - 2]
       ELSE IF s # <<>> /\ Head(s) # ZBegin
       THEN [ok |-> FALSE, data |-> <<>>, total_in |-> 0]
       ELSE [ok |-> ~eofIsError, data |-> Drop(s, 1), total_in |-> Len(s)]

\* ZlibDecoder over the bytes at the cursor, read to its end: what it
\* delivers and total_in().  Bytes that do not begin a zlib stream are an
\* error; a stream cut off by the end of the pack is an error or a short
\* read, as the decoder decides (eofIsError).
Inflate(s, eofIsError) ==
    LET e == IndexOf(s, ZEnd)
    IN IF s # <<>> /\ Head(s) = ZBegin /\ e > 0
       THEN [ok |-> TRUE, data |-> SubSeq(s, 2, e - 1), total_in |-> e]
       ELSE IF s # <<>> /\ Head(s) # ZBegin
       THEN [ok |-> FALSE, data |-> <<>>, total_in |-> 0]
       ELSE [ok |-> ~eofIsError, data |-> Drop(s, 1), total_in |-> Len(s)]

\* (variant: a file is created and nothing is copied into it)
PutEmpty(files, path, kind, data) ==
    [p \in DOMAIN files \cup {path} |->
        IF p = path THEN [kind |-> kind, data |-> <<>>] ELSE files[p]]

\* the files of the target directory: a path, the names from the directory
\* down, maps to a directory or to a file and its bytes
Put(files, path, kind, data) ==
    [p \in DOMAIN files \cup {path} |->
        IF p = path THEN [kind |-> kind, data |-> data] ELSE files[p]]

\* create_git_dirs(Some(dir)) as far as the checkout meets it
GitDirs == Put(<<>>, <<NameGit>>, "dir", <<>>)

IsSpace(x) == x \in {9, 10, 11, 12, 13, SP}

\* str::trim
Trim(s) ==
    LET kept == {i \in 1..Len(s) : ~IsSpace(s[i])}
    IN IF kept = {} THEN <<>>
       ELSE SubSeq(s, CHOOSE i \in kept : \A j \in kept : i <= j,
                      CHOOSE i \in kept : \A j \in kept : i >= j)

\* what read_line takes for text: ASCII, a hex name being 40 ASCII characters
TextValid(s) == \A i \in 1..Len(s) : s[i] < 128 \/ IsHex(s[i])

\* the loop over the lines of the HEAD commit.  line is never cleared, so
\* split_once always finds the key of the first line: the value is taken
\* from the first line or from none.
HeadTreeHash(body) ==
    LET lf == IndexOf(body, LF)
        first == IF lf = 0 THEN body ELSE Take(body, lf)
        sp == IndexOf(first, SP)
        v == Trim(Drop(first, sp))
    IN IF body = <<>>
       THEN [status |-> "err", why |-> "could not get tree from commit", text |-> <<>>]
       ELSE IF ~TextValid(first)
       THEN [status |-> "err", why |-> "reading commit line", text |-> <<>>]
       ELSE IF sp = 0
       THEN [status |-> "err", why |-> "failed to parse commit line", text |-> <<>>]
       ELSE IF Take(first, sp - 1) # KindName("tree")
       THEN [status |-> "err",
             why |-> IF TextValid(body) THEN "could not get tree from commit"
                     ELSE "reading commit line",
             text |-> <<>>]
       ELSE IF v = <<>>
       THEN [status |-> "err", why |-> "could not get tree from commit", text |-> <<>>]
       ELSE [status |-> "ok", why |-> "", text |-> v]

\* ObjectFile::read(hash) for a hash given as text: hash[..2] panics on
\* a text of one byte, and a text that is no hex name is the path of no object
ObjectReadText(st, root, text) ==
    IF ByteLen(text) < 2 THEN Failure("read", "panic", "byte index 2 is out of bounds")
    ELSE IF Len(text) = 1 /\ IsHex(text[1]) THEN ObjectRead(st, root, text[1])
    ELSE Failure("read", "err", "opening file")

\* reconstruct_repo_files(clone_dir, current_dir, tree_hash) and its loop over
\* the entries of the tree (TreeItems, s being what the reader still holds)
RECURSIVE ReconstructRepoFiles(_, _, _, _), TreeItems(_, _, _, _)
ReconstructRepoFiles(st, current_dir, tree_hash, files) ==
    LET tree_obj == ObjectReadText(st, "clone", tree_hash)
    IN IF tree_obj.status # "ok"
       THEN [status |-> tree_obj.status, why |-> "opening tree file", files |-> files]
       ELSE IF tree_obj.typ # "tree"
       THEN [status |-> "err", why |-> "incorrect tree object type", files |-> files]
       ELSE TreeItems(st, current_dir, tree_obj.data, files)

TreeItems(st, current_dir, s, files) ==
    IF s = <<>> THEN [status |-> "ok", why |-> "", files |-> files]
    ELSE
    LET i == IndexOf(s, NUL)
        item == Take(s, i - 1)
        sp == IndexOf(item, SP)
        mode == Take(item, sp - 1)
        name == Drop(item, sp)
        after == Drop(s, i)
        hash == IF IsRaw(Head(after)) THEN <<HexEncode(Head(after) - RawBase)>>
                ELSE <<HexEncode(Sha1Mod)>>
        rest == IF IsRaw(Head(after)) THEN Tail(after) ELSE Drop(after, DigestLen)
        path == Append(current_dir, name)
    IN IF i = 0
       THEN [status |-> "panic", why |-> "should be null terminated string", files |-> files]
       ELSE IF ~Utf8Valid(item)
       THEN [status |-> "err", why |-> "mode and name in tree item is not valid UTF-8",
             files |-> files]
       ELSE IF sp = 0
       THEN [status |-> "err", why |-> "parsing object mode and name", files |-> files]
       ELSE IF ByteLen(after) < DigestLen
       THEN [status |-> "err", why |-> "reading sha hash of tree item", files |-> files]
       ELSE IF mode # <<>> /\ Head(mode) = 52
       THEN IF path \in DOMAIN files
            THEN [status |-> "err", why |-> "creating dir", files |-> files]
            ELSE LET sub == ReconstructRepoFiles(st, path, hash,
                                                 Put(files, path, "dir", <<>>))
                 IN IF sub.status # "ok" THEN sub
                    ELSE TreeItems(st, current_dir, rest, sub.files)
       ELSE LET blob == ObjectReadText(st, "clone", hash)
            IN IF blob.status # "ok"
               THEN [status |-> blob.status, why |-> blob.why, files |-> files]
               ELSE IF path \in DOMAIN files /\ files[path].kind = "dir"
               THEN [status |-> "err", why |-> "creating file", files |-> files]
               ELSE TreeItems(st, current_dir, rest, Put(files, path, "file", blob.data))

\* let num_obj = pack_data.get_u32()
PackBegin ==
    /\ clone.pc = "start"
    /\ LET num_obj == GetU32(clone.pack)
       IN IF ~num_obj.ok
          THEN /\ out' = Failure("clone", "panic", "get_u32")
               /\ clone' = [clone EXCEPT !.pc = "failed"]
          ELSE /\ out' = [NoResult EXCEPT !.op = "clone", !.status = "ok", !.why = "count"]
               /\ clone' = [clone EXCEPT !.pc = "records", !.left = num_obj.value,
                                         !.pos = 4]
    /\ UNCHANGED <<store, w, tmp, nops, worktree, runs>>

\* one turn of the loop over the records, from the byte at the cursor
PackRecord(eofIsError) ==
    /\ clone.pc = "records"
    /\ clone.left > 0
    /\ LET header == PackObjectHeader(Drop(clone.pack, clone.pos))
           name == BaseObjHash(header.typ, header.rest)
           obj == Inflate(name.rest, eofIsError)
           done == RecordOutcome(store, [typ |-> header.typ, size |-> header.size,
                                         data |-> obj.data, base |-> name.hex,
                                         inflates |-> obj.ok])
       IN IF header.status # "ok"
          THEN /\ out' = Failure("clone", header.status,
                                 IF header.status = "panic" THEN "get_u8"
                                 ELSE "Unknown or unsupported object")
               /\ clone' = [clone EXCEPT !.pc = "failed"]
               /\ store' = store
          ELSE IF ~name.ok
          THEN /\ out' = Failure("clone", "err",
                                 "could not get OBJ_REF_DELTA base object name")
               /\ clone' = [clone EXCEPT !.pc = "failed"]
               /\ store' = store
          ELSE /\ out' = done.out
               /\ store' = done.st
               /\ clone' =
                    IF ~done.ok THEN [clone EXCEPT !.pc = "failed"]
                    ELSE [clone EXCEPT
                            !.left = clone.left - 1,
                            !.pos = Len(clone.pack) - Len(name.rest) + obj.total_in,
                            !.made = IF done.out.why = "skipped" THEN clone.made
                                     ELSE Append(clone.made, done.out.digest)]
    /\ UNCHANGED <<w, tmp, nops, worktree, runs>>

\* after the loop: the checksum, the HEAD commit, its tree, the checkout
PackFinish ==
    /\ clone.pc = "records"
    /\ clone.left = 0
    /\ LET head_commit_obj == ObjectRead(store, "clone", clone.head)
           head_tree_hash == HeadTreeHash(head_commit_obj.data)
           checkout == ReconstructRepoFiles(store, <<>>, head_tree_hash.text, clone.files)
       IN IF Len(clone.pack) - clone.pos # DigestLen
          THEN /\ out' = Failure("clone", "err", "cannot get pack checksum")
               /\ clone' = [clone EXCEPT !.pc = "failed"]
          ELSE IF head_commit_obj.status # "ok"
          THEN /\ out' = [head_commit_obj EXCEPT !.op = "clone"]
               /\ clone' = [clone EXCEPT !.pc = "failed"]
          ELSE IF head_commit_obj.typ # "commit"
          THEN /\ out' = Failure("clone", "err", "HEAD does not point to commit")
               /\ clone' = [clone EXCEPT !.pc = "failed"]
          ELSE IF head_tree_hash.status # "ok"
          THEN /\ out' = Failure("clone", head_tree_hash.status, head_tree_hash.why)
               /\ clone' = [clone EXCEPT !.pc = "failed"]
          ELSE IF checkout.status # "ok"
          THEN /\ out' = Failure("clone", checkout.status, checkout.why)
               /\ clone' = [clone EXCEPT !.pc = "failed", !.files = checkout.files]
          ELSE /\ out' = [NoResult EXCEPT !.op = "clone", !.status = "ok",
                                          !.why = "checkout"]
               /\ clone' = [clone EXCEPT !.pc = "done", !.files = checkout.files]
    /\ UNCHANGED <<store, w, tmp, nops, worktree, runs>>

----------------------------------------------------------------------------
(* The packs a remote may send *)

TypeCode(typ) ==
    CASE typ = "commit" -> 1
      [] typ = "tree" -> 2
      [] typ = "blob" -> 3
      [] typ = "tag" -> 4
      [] typ = "reserved" -> 5
      [] typ = "ofs_delta" -> 6
      [] typ = "ref_delta" -> 7

\* a size from its bit 4 on, 7 bits a byte, the lowest first
RECURSIVE SizeMore(_)
SizeMore(n) == IF n < 128 THEN <<n>> ELSE <<128 + (n % 128)>> \o SizeMore(n \div 128)

\* the header of a record: type and low 4 bits of the size, then the rest
PackHeaderBytes(code, size) ==
    IF size < 16 THEN <<code * 16 + size>>
    ELSE <<128 + code * 16 + (size % 16)>> \o SizeMore(size \div 16)

\* a digest as the 20 bytes of a base object name
DigestBytes(d) ==
    [i \in 1..17 |-> 0] \o <<d \div 65536, (d \div 256) % 256, d % 256>>

Deflate(data) == <<ZBegin>> \o data \o <<ZEnd>>

\* a record as sent: header, then the base name (REF_DELTA) or the offset
\* bytes (OFS_DELTA), then the zlib stream
EncodeRecord(r) ==
    PackHeaderBytes(TypeCode(r.typ), r.size)
    \o (IF r.typ = "ref_delta" THEN DigestBytes(r.base)
        ELSE IF r.typ = "ofs_delta" THEN r.ofs ELSE <<>>)
    \o Deflate(r.data)

RECURSIVE EncodeRecords(_)
EncodeRecords(recs) ==
    IF recs = <<>> THEN <<>> ELSE EncodeRecord(Head(recs)) \o EncodeRecords(Tail(recs))

\* the 20 bytes of the pack checksum
Checksum == [i \in 1..DigestLen |-> 17]

PackOf(count, recs, trailer) == <<0, 0, 0, count>> \o EncodeRecords(recs) \o trailer

\* the name of the object a sender means by a kind and a payload
SentDigest(typ, data) == Sha1Digest(HeaderBytes(typ, ByteLen(data)) \o data)

\* intended is the object the sender means the record to become
Regular(typ, data) ==
    [typ |-> typ, size |-> ByteLen(data), data |-> data, base |-> 0, ofs |-> <<>>,
     intended |-> [typ |-> typ, data |-> data]]
RefDelta(base, delta, typ, data) ==
    [typ |-> "ref_delta", size |-> Len(delta), data |-> delta, base |-> base,
     ofs |-> <<>>, intended |-> [typ |-> typ, data |-> data]]
OfsDelta(ofs, delta, typ, data) ==
    [typ |-> "ofs_delta", size |-> Len(delta), data |-> delta, base |-> 0,
     ofs |-> ofs, intended |-> [typ |-> typ, data |-> data]]

IntendedDigest(r) == SentDigest(r.intended.typ, r.intended.data)

BlobAb == <<97, 98>>
BlobLong == [i \in 1..16 |-> 97]

\* a tree as a sender has it: entries with a mode, a name and the object
\* named, a blob (data) or a tree (kids)
BlobEntry(mode, name, data) ==
    [mode |-> mode, name |-> name, typ |-> "blob", data |-> data, kids |-> <<>>]
TreeEntry(name, kids) ==
    [mode |-> <<52, 48, 48, 48, 48>>, name |-> name, typ |-> "tree", data |-> <<>>,
     kids |-> kids]

\* <mode> <name>\0<20 bytes of the digest> for each entry
RECURSIVE TreePayload(_)
TreePayload(entries) ==
    IF entries = <<>> THEN <<>>
    ELSE LET e == Head(entries)
             d == SentDigest(e.typ, IF e.typ = "tree" THEN TreePayload(e.kids) ELSE e.data)
         IN e.mode \o <<SP>> \o e.name \o <<NUL, RawBase + d>> \o TreePayload(Tail(entries))

\* x -> "ab"
InnerEntries == <<BlobEntry(<<49, 48, 48, 54, 52, 52>>, NameX, BlobAb)>>

\* a -> the tree above, ab -> "ab", l -> a link whose target is "ab"
OuterEntries ==
    <<TreeEntry(NameA, InnerEntries),
      BlobEntry(<<49, 48, 48, 54, 52, 52>>, NameAb, BlobAb),
      BlobEntry(<<49, 50, 48, 48, 48, 48>>, <<108>>, BlobAb)>>

TreeInner == TreePayload(InnerEntries)
TreeOuter == TreePayload(OuterEntries)

\* a tree whose only entry is cut before its NUL, and one cut before its digest
TreeCutName == <<49, 48, 48, 54, 52, 52, SP>> \o NameX
TreeCutDigest == <<49, 48, 48, 54, 52, 52, SP>> \o NameX \o <<NUL>>

\* "tree <hex>\nauthor a\n\nm\n"
CommitOf(tree) ==
    <<116, 114, 101, 101, SP, HexEncode(SentDigest("tree", tree)), LF>>
    \o <<97, 117, 116, 104, 111, 114, SP, 97, LF, LF, 109, LF>>

\* "author a\ntree <hex>\n\nm\n": the tree line after another header line
CommitTreeSecond(tree) ==
    <<97, 117, 116, 104, 111, 114, SP, 97, LF>>
    \o <<116, 114, 101, 101, SP, HexEncode(SentDigest("tree", tree)), LF>>
    \o <<LF, 109, LF>>

\* "author a\n\nm\n": no tree line
CommitNoTree == <<97, 117, 116, 104, 111, 114, SP, 97, LF, LF, 109, LF>>

\* copy 2 bytes from offset 0 of the base, then insert 'c'
DeltaAbc == <<2, 3, 144, 2, 1, 99>>

SentRecords ==
    {Regular("blob", BlobAb), Regular("blob", BlobLong), Regular("tag", BlobAb),
     RefDelta(SentDigest("blob", BlobAb), DeltaAbc, "blob", <<97, 98, 99>>),
     OfsDelta(<<5>>, DeltaAbc, "blob", <<97, 98, 99>>),
     OfsDelta(<<>>, DeltaAbc, "blob", <<97, 98, 99>>),
     [Regular("blob", BlobAb) EXCEPT !.typ = "reserved"]}

\* the objects of a repository, each before the objects that name it
Repository(tree) ==
    <<Regular("blob", BlobAb), Regular("tree", TreeInner), Regular("tree", tree),
      Regular("commit", CommitOf(tree))>>

\* the same objects with two more commits: one that names the tree on its
\* second line, one that names no tree
RepositoryOfCommits ==
    <<Regular("blob", BlobAb), Regular("tree", TreeInner), Regular("tree", TreeOuter),
      Regular("commit", CommitTreeSecond(TreeOuter)), Regular("commit", CommitNoTree)>>

SentLists ==
    SeqsUpTo(SentRecords, MaxRecords)
    \cup {Repository(tree) : tree \in {TreeOuter, TreeCutName, TreeCutDigest}}
    \cup {RepositoryOfCommits}

\* the packs drawn: the count right or off by one, the checksum whole,
\* missing, short or long; and packs cut off within their first bytes
PackInputs ==
    UNION {{[recs |-> recs, count |-> count, trailer |-> trailer,
             pack |-> PackOf(count, recs, trailer)] :
               count \in {Len(recs), Len(recs) + 1} \cup {n \in {Len(recs) - 1} : n >= 0},
               trailer \in {Checksum, <<>>, <<17>>, Append(Checksum, 17)}} :
           recs \in SentLists}
    \cup UNION {{[recs |-> recs, count |-> Len(recs), trailer |-> Checksum,
                  pack |-> Take(PackOf(Len(recs), recs, Checksum), keep)] :
                    keep \in {2, 4, 5}} :
                recs \in SeqsUpTo(SentRecords, 1)}

\* the commits HEAD may name
Heads ==
    {HexEncode(SentDigest("commit", CommitOf(tree))) :
        tree \in {TreeOuter, TreeCutName, TreeCutDigest}}
    \cup {HexEncode(SentDigest("blob", BlobAb))}
    \cup {HexEncode(SentDigest("commit", CommitTreeSecond(TreeOuter))),
          HexEncode(SentDigest("commit", CommitNoTree))}

PackInit ==
    /\ store = EmptyStore
    /\ w = Idle
    /\ tmp = NoFile
    /\ out = NoResult
    /\ nops = 0
    /\ worktree = {}
    /\ runs = {}
    /\ \E sent \in PackInputs, head \in Heads :
         clone = [NoClone EXCEPT !.pc = "start", !.pack = sent.pack, !.head = head,
                                 !.sent = [recs |-> sent.recs, count |-> sent.count,
                                           trailer |-> sent.trailer],
                                 !.files = GitDirs]

PackNext ==
    \/ PackBegin
    \/ \E eofIsError \in BOOLEAN : PackRecord(eofIsError)
    \/ PackFinish

SpecPack == PackInit /\ [][PackNext]_vars

----------------------------------------------------------------------------
(* process_delta_object(dir, obj, base_obj) on its own *)

Insert(bytes) == [op |-> "insert", bytes |-> bytes, offset |-> 0, length |-> Len(bytes)]
Copy(offset, length) == [op |-> "copy", bytes |-> <<>>, offset |-> offset, length |-> length]

\* the bytes of a number that are not zero, the lowest first, and the flag
\* bits that tell which are there
RECURSIVE OperandBytes(_, _)
OperandBytes(n, count) ==
    IF count = 0 THEN <<>>
    ELSE (IF n % 256 # 0 THEN <<n % 256>> ELSE <<>>) \o OperandBytes(n \div 256, count - 1)

RECURSIVE OperandFlags(_, _, _)
OperandFlags(n, count, bit) ==
    IF count = 0 THEN 0
    ELSE (IF n % 256 # 0 THEN bit ELSE 0) + OperandFlags(n \div 256, count - 1, 2 * bit)

\* an instruction as a sender writes it
EncodeInstruction(i) ==
    IF i.op = "insert" THEN <<Len(i.bytes)>> \o i.bytes
    ELSE <<128 + OperandFlags(i.offset, 4, 1) + OperandFlags(i.length, 3, 16)>>
         \o OperandBytes(i.offset, 4) \o OperandBytes(i.length, 3)

RECURSIVE EncodeInstructions(_)
EncodeInstructions(is) ==
    IF is = <<>> THEN <<>>
    ELSE EncodeInstruction(Head(is)) \o EncodeInstructions(Tail(is))

\* a delta: source length, target length, instructions
DeltaOf(src, tgt, is) == SizeMore(src) \o SizeMore(tgt) \o EncodeInstructions(is)

\* the bytes the instructions add up to
RECURSIVE TargetOf(_)
TargetOf(is) == IF is = <<>> THEN 0 ELSE Head(is).length + TargetOf(Tail(is))

Instructions ==
    {Insert(<<99>>), Insert(<<>>), Copy(0, 2), Copy(1, 1), Copy(1, 2), Copy(0, 0)}

\* deltas that end inside the source length, after it, inside the target
\* length, after the two lengths, and inside a copy operand
CutDeltas == {<<130>>, <<2>>, <<2, 131>>, <<2, 3>>, <<2, 2, 144>>}

DeltaInputs ==
    UNION {{[bytes |-> DeltaOf(src, tgt, is), whole |-> TRUE, src |-> src, tgt |-> tgt,
             instrs |-> is] :
               src \in {2, 3}, tgt \in {TargetOf(is), TargetOf(is) + 1}} :
           is \in SeqsUpTo(Instructions, MaxInstrs)}
    \cup {[bytes |-> b, whole |-> FALSE, src |-> 0, tgt |-> 0, instrs |-> <<>>] :
            b \in CutDeltas}

\* base objects: "ab" of each kind, and a blob whose header says 3 for "ab"
DeltaBases ==
    {[typ |-> k, size |-> 2, data |-> BlobAb] : k \in Kinds}
    \cup {[typ |-> "blob", size |-> 3, data |-> BlobAb]}

\* process_delta_object with the delta d.bytes inflated from obj
ProcessDeltaObject(base, d) ==
    /\ nops < MaxDeltas
    /\ nops' = nops + 1
    /\ LET new == DeltaObject(d.bytes, base)
           wr == ObjectWrite(store, "clone", new.typ, ByteLen(new.data), new.data)
       IN IF new.status # "ok"
          THEN /\ store' = store
               /\ out' = [Failure("delta", new.status, "processing delta object")
                            EXCEPT !.args = [base |-> base, delta |-> d]]
          ELSE /\ store' = wr.st
               /\ out' = [NoResult EXCEPT !.op = "delta", !.status = "ok",
                                          !.digest = HexEncode(wr.digest),
                                          !.typ = new.typ, !.size = ByteLen(new.data),
                                          !.data = new.data, !.existed = wr.existed,
                                          !.args = [base |-> base, delta |-> d]]
    /\ UNCHANGED <<w, tmp, worktree, runs, clone>>

\* the store of a clone before its first record and after a blob "ab"
DeltaInit ==
    /\ store \in {EmptyStore, ObjectWrite(EmptyStore, "clone", "blob", 2, BlobAb).st}
    /\ w = Idle
    /\ tmp = NoFile
    /\ out = NoResult
    /\ nops = 0
    /\ worktree = {}
    /\ runs = {}
    /\ clone = NoClone

DeltaNext == \E base \in DeltaBases, d \in DeltaInputs : ProcessDeltaObject(base, d)

SpecDelta == DeltaInit /\ [][DeltaNext]_vars

----------------------------------------------------------------------------
(* The header of a pack record on its own (invoke, clone.rs 79-99) *)

\* first bytes of every type with and without the MSB, and continuation
\* bytes with and without it
PackHeaderByteSet == {0, 1, 53, 80, 127, 128, 129, 149, 176, 208, 255}

\* let b = pack_data.get_u8() ... the end of the while loop, on the bytes
\* in clone.pack
DecodeObjectHeader ==
    /\ clone.pc = "header"
    /\ LET header == PackObjectHeader(clone.pack)
       IN out' = [NoResult EXCEPT !.op = "header", !.status = header.status,
                                  !.typ = header.typ, !.size = header.size,
                                  !.data = header.rest]
    /\ clone' = [clone EXCEPT !.pc = "decoded"]
    /\ UNCHANGED <<store, w, tmp, nops, worktree, runs>>

PackHeaderInit ==
    /\ store = EmptyStore
    /\ w = Idle
    /\ tmp = NoFile
    /\ out = NoResult
    /\ nops = 0
    /\ worktree = {}
    /\ runs = {}
    /\ \E s \in SeqsUpTo(PackHeaderByteSet, MaxHeader) :
         clone = [NoClone EXCEPT !.pc = "header", !.pack = s]

PackHeaderNext == DecodeObjectHeader

SpecPackHeader == PackHeaderInit /\ [][PackHeaderNext]_vars

----------------------------------------------------------------------------
(* ls-tree (commands/ls_tree.rs) *)

\* PathBuf::from(prefix).join(name): an absolute name replaces the prefix
Join(prefix, name) ==
    IF name # <<>> /\ Head(name) = SLASH THEN name
    ELSE IF prefix = <<>> \/ prefix[Len(prefix)] = SLASH THEN prefix \o name
    ELSE prefix \o <<SLASH>> \o name

\* {:06} of a number
Pad6(n) ==
    LET digits == Decimal(n)
    IN IF Len(digits) >= 6 THEN digits
       ELSE [i \in 1..(6 - Len(digits)) |-> ZERO] \o digits

\* list_tree(hash, recurse, name_only, path_prefix) and its loop over the
\* entries (ListItems, s being what the reader still holds); path_prefix is
\* <<>> for None and <<name>> for Some(name); log holds the lines printed
RECURSIVE ListTree(_, _, _, _, _, _), ListItems(_, _, _, _, _, _, _)
ListTree(st, hash, recurse, name_only, path_prefix, log) ==
    LET object == ObjectReadText(st, "cwd", hash)
    IN IF object.status \notin {"ok", "truncated"}
       THEN [status |-> object.status, why |-> object.why, log |-> log]
       ELSE IF object.typ # "tree"
       THEN [status |-> "err", why |-> "incorrect object type", log |-> log]
       ELSE ListItems(st, object.data, object.status = "truncated", recurse, name_only,
                      path_prefix, log)

ListItems(st, s, truncated, recurse, name_only, path_prefix, log) ==
    IF s = <<>>
    THEN IF truncated
         THEN [status |-> "err", why |-> "reading mode and name for tree item", log |-> log]
         ELSE [status |-> "ok", why |-> "", log |-> log]
    ELSE
    LET i == IndexOf(s, NUL)
        item == Take(s, i - 1)
        sp == IndexOf(item, SP)
        mode == Take(item, sp - 1)
        name == Drop(item, sp)
        after == Drop(s, i)
        hash == IF IsRaw(Head(after)) THEN <<HexEncode(Head(after) - RawBase)>>
                ELSE <<HexEncode(Sha1Mod)>>
        rest == IF IsRaw(Head(after)) THEN Tail(after) ELSE Drop(after, DigestLen)
        kind == IF mode # <<>> /\ Head(mode) = 52 THEN "tree" ELSE "blob"
        shown == IF path_prefix = <<>> THEN name ELSE Join(path_prefix[1], name)
    IN IF i = 0 /\ truncated
       THEN [status |-> "err", why |-> "reading mode and name for tree item", log |-> log]
       ELSE IF i = 0
       THEN [status |-> "panic", why |-> "should be null terminated string", log |-> log]
       ELSE IF ~Utf8Valid(item)
       THEN [status |-> "err", why |-> "mode and name in tree item is not valid UTF-8",
             log |-> log]
       ELSE IF sp = 0
       THEN [status |-> "err", why |-> "parsing object mode and name", log |-> log]
       ELSE IF ByteLen(after) < DigestLen
       THEN [status |-> "err", why |-> "reading sha hash of tree item", log |-> log]
       ELSE IF recurse /\ kind = "tree"
       THEN LET sub == ListTree(st, hash, recurse, name_only, <<name>>, log)
            IN IF sub.status # "ok" THEN sub
               ELSE ListItems(st, rest, truncated, recurse, name_only, path_prefix, sub.log)
       ELSE IF name_only
       THEN ListItems(st, rest, truncated, recurse, name_only, path_prefix,
                      Append(log, shown))
       ELSE IF ParseUsize(mode) = -1
       THEN [status |-> "err", why |-> "incorrect file mode - not a number", log |-> log]
       ELSE ListItems(st, rest, truncated, recurse, name_only, path_prefix,
                      Append(log, Pad6(ParseUsize(mode)) \o <<SP>> \o KindName(kind)
                                     \o <<SP>> \o hash \o <<9>> \o shown))

\* ls_tree::invoke(hash, recurse, name_only)
LsTree(hash, recurse, name_only) ==
    /\ nops < MaxLists
    /\ nops' = nops + 1
    /\ \E done \in {ListTree(store, hash, recurse, name_only, <<>>, <<>>)} :
          out' = [NoResult EXCEPT !.op = "ls-tree", !.status = done.status,
                                  !.why = done.why, !.log = done.log,
                                  !.args = [hash |-> hash, recurse |-> recurse,
                                            name_only |-> name_only]]
    /\ UNCHANGED <<store, w, tmp, worktree, runs, clone>>

\* the objects of a tree, each before the tree that names it
RECURSIVE ObjectsOf(_)
ObjectsOf(entries) ==
    IF entries = <<>> THEN <<>>
    ELSE LET e == Head(entries)
         IN (IF e.typ = "tree"
             THEN ObjectsOf(e.kids) \o <<[typ |-> "tree", data |-> TreePayload(e.kids)]>>
             ELSE <<[typ |-> "blob", data |-> e.data]>>)
            \o ObjectsOf(Tail(entries))

\* the store after each of the objects is written
RECURSIVE StoreOf(_, _)
StoreOf(st, objects) ==
    IF objects = <<>> THEN st
    ELSE StoreOf(ObjectWrite(st, "cwd", Head(objects).typ, ByteLen(Head(objects).data),
                             Head(objects).data).st,
                 Tail(objects))

\* a -> (b -> (c -> "ab", x -> "ab")), ab -> "ab"
DeepEntries ==
    <<TreeEntry(NameA,
                <<TreeEntry(<<98>>,
                            <<BlobEntry(<<49, 48, 48, 54, 52, 52>>, <<99>>, BlobAb),
                              BlobEntry(<<49, 48, 48, 54, 52, 52>>, NameX, BlobAb)>>)>>),
      BlobEntry(<<49, 48, 48, 54, 52, 52>>, NameAb, BlobAb)>>

\* an entry whose mode is no number
TreeBadMode == TreePayload(<<BlobEntry(<<120>>, NameX, BlobAb)>>)

\* the trees listed: nested three deep, nested two deep, and trees that
\* are cut off or hold a mode that is no number
ListedStores ==
    {StoreOf(EmptyStore, ObjectsOf(entries)
                           \o <<[typ |-> "tree", data |-> TreePayload(entries)]>>) :
        entries \in {DeepEntries, OuterEntries}}
    \cup {StoreOf(EmptyStore, <<[typ |-> "blob", data |-> BlobAb],
                                [typ |-> "tree", data |-> TreeCutName],
                                [typ |-> "tree", data |-> TreeCutDigest],
                                [typ |-> "tree", data |-> TreeBadMode]>>)}

LsTreeInit ==
    /\ store \in ListedStores
    /\ w = Idle
    /\ tmp = NoFile
    /\ out = NoResult
    /\ nops = 0
    /\ worktree = {}
    /\ runs = {}
    /\ clone = NoClone

LsTreeNext ==
    \E hex \in KnownHex, recurse \in BOOLEAN, name_only \in BOOLEAN :
        LsTree(<<hex>>, recurse, name_only)

SpecLsTree == LsTreeInit /\ [][LsTreeNext]_vars

----------------------------------------------------------------------------
(* The header parser: ObjectFile::read on files that begin "<k> <n>\0" *)

\* blob, tree, commit, tag, blab, Blob and the empty kind
HeaderKinds ==
    {KindName(kind) : kind \in Kinds} \cup {<<98, 108, 97, 98>>, <<66, 108, 111, 98>>, <<>>}

\* 0, 2, 12, 002, +2, -2, 2a, the empty size and 10^20
HeaderSizes ==
    {<<48>>, <<50>>, <<49, 50>>, <<48, 48, 50>>, <<43, 50>>, <<45, 50>>, <<50, 97>>, <<>>,
     <<49, 48, 48, 48, 48, 48, 48, 48, 48, 48, 48, 48, 48, 48, 48, 48, 48, 48, 48, 48, 48>>}

HeaderPayloads == {<<>>, <<97, 98>>}

HeaderInit ==
    /\ \E k \in HeaderKinds, n \in HeaderSizes, payload \in HeaderPayloads :
         store = [p \in {HashToPath("cwd", HexEncode(1))} |->
                     [data |-> k \o <<SP>> \o n \o <<NUL>> \o payload, finished |-> TRUE]]
    /\ w = Idle
    /\ tmp = NoFile
    /\ out = NoResult
    /\ nops = 0
    /\ worktree = {}
    /\ runs = {}
    /\ clone = NoClone

HeaderNext == \E hex \in KnownHex : ReadObject("cwd", hex)

SpecHeader == HeaderInit /\ [][HeaderNext]_vars

----------------------------------------------------------------------------
(* Properties of the object codec *)

\* the canonical bytes of the write in progress and the path they hash to
CanonicalBytes(typ, size, payload) == HeaderBytes(typ, size) \o payload
FinalPath(root, typ, size, payload) ==
    HashToPath(root, HexEncode(Sha1Digest(CanonicalBytes(typ, size, payload))))

\* C1 (as claimed): whenever ObjectFile::write has returned a digest for an
\* object of any of the four kinds, ObjectFile::read of that digest succeeds
\* with the same kind and size and a reader that delivers the written payload
C1_RoundTrip ==
    (out.op = "write" /\ out.status = "ok") =>
        LET r == ObjectRead(store, "cwd", out.digest)
        IN r.status = "ok" /\ r.typ = out.typ /\ r.size = out.size /\ r.data = out.data

\* C3: at every step of ObjectFile::write, and after a failed or interrupted
\* write, every file at an object path is a finished zlib stream, and the
\* final path of the write in progress is absent or holds the whole object
C3_AtomicPublish ==
    /\ \A p \in DOMAIN store : store[p].finished
    /\ w.pc # "idle" =>
         LET p == FinalPath(w.root, w.typ, w.size, w.payload)
         IN p \in DOMAIN store =>
              store[p].data = CanonicalBytes(w.typ, w.size, w.payload)
    /\ (out.op = "write" /\ out.status = "ok") =>
         LET p == HashToPath("cwd", out.digest)
         IN p \in DOMAIN store
            /\ store[p].data = CanonicalBytes(out.typ, out.size, out.data)

\* a write stopped between the first streamed chunk and finish: part of the
\* object is in the temporary file and nothing is at the final path
C3_Witness ==
    /\ w.pc = "copy"
    /\ tmp.exists /\ ~tmp.finished
    /\ w.rest # <<>> /\ w.rest # w.payload
    /\ FinalPath(w.root, w.typ, w.size, w.payload) \notin DOMAIN store

\* C5 (as claimed): cat-file never prints, as a success, a payload whose
\* length differs from the size declared in the object's header
C5_SizeMismatchIsError ==
    (out.op = "cat-file" /\ out.status = "ok" /\ out.why = "content") =>
        ByteLen(out.data) = out.size

\* the stand-in hash separates the objects of a run: two stored files with
\* the same name under different roots hold the same bytes
Sha1NoCollision ==
    \A p, q \in DOMAIN store : PathName(p) = PathName(q) => store[p].data = store[q].data

----------------------------------------------------------------------------
(* Properties of write-tree *)

\* the order of tree entries: byte comparison of the names, a directory's
\* name taken with a trailing '/'
AugmentedName(entry) ==
    IF entry.kind = "dir" THEN Append(entry.name, SLASH) ELSE entry.name

StrictlyIncreasing(entries) ==
    \A i, j \in 1..Len(entries) :
        i < j => LexLess(AugmentedName(entries[i]), AugmentedName(entries[j]))

\* C7: every tree write-tree builds lists its entries strictly increasing in
\* that order, and any two runs on the directory, whatever the enumeration
\* orders, emit the same sequences and return the same digest
C7_TreeOrderDeterministic ==
    /\ out.op = "write-tree" =>
         \A i \in 1..Len(out.log) : StrictlyIncreasing(out.log[i].entries)
    /\ \A r1, r2 \in runs : r1.digest = r2.digest /\ r1.log = r2.log

\* two runs on a root that holds file a.txt, directory a and ab: read_dir
\* enumerated them in the order of the tree in one run and in another order
\* in the other
C7_Witness ==
    /\ \E r1, r2 \in runs : r1.inOrder /\ ~r2.inOrder
    /\ out.op = "write-tree" /\ out.status = "ok"
    /\ \E i \in 1..Len(out.log) :
         /\ out.log[i].path = <<>>
         /\ Len(out.log[i].entries) = 3
         /\ out.log[i].entries[1].name = NameATxt
         /\ out.log[i].entries[2].name = NameA /\ out.log[i].entries[2].kind = "dir"
         /\ out.log[i].entries[3].name = NameAb

\* a directory has retained children: one that is not .git or target and is
\* a file, a link, or a directory that has retained children itself
RECURSIVE HasRetained(_)
HasRetained(kids) ==
    \E e \in kids :
        /\ e.name # NameGit /\ e.name # NameTarget
        /\ (e.kind = "dir" => HasRetained(e.kids))

\* the directories below the one at path, each with its path
RECURSIVE SubDirs(_, _)
SubDirs(path, kids) ==
    UNION {{[path |-> Append(path, e.name), kids |-> e.kids]}
               \cup SubDirs(Append(path, e.name), e.kids) :
           e \in {x \in kids : x.kind = "dir"}}

Parent(path) == SubSeq(path, 1, Len(path) - 1)
Last(path) == path[Len(path)]

\* C8: write-tree writes no tree for a subdirectory without retained
\* children and lists no entry for it in its parent's tree, and it fails when
\* the root has none
C8_EmptyDirectoryElision ==
    out.op = "write-tree" =>
        /\ \A d \in SubDirs(<<>>, worktree) :
             ~HasRetained(d.kids) =>
                \A i \in 1..Len(out.log) :
                    /\ out.log[i].path # d.path
                    /\ out.log[i].path = Parent(d.path) =>
                         \A k \in 1..Len(out.log[i].entries) :
                             out.log[i].entries[k].name # Last(d.path)
        /\ ~HasRetained(worktree) =>
             /\ out.status = "err"
             /\ out.log = <<>>

\* write-tree has succeeded on a root whose subdirectory a holds nothing but
\* an empty directory and target
C8_Witness ==
    /\ out.op = "write-tree" /\ out.status = "ok"
    /\ \E d \in SubDirs(<<>>, worktree) :
         /\ d.path = <<NameA>>
         /\ d.kids = {Dir(NameX, {}), Dir(NameTarget, {File(NameX, <<>>)})}

\* C9 (as claimed): after a successful write-tree every digest listed by a
\* tree it wrote names an object present in the store
C9_ChildrenInStore ==
    (out.op = "write-tree" /\ out.status = "ok") =>
        \A i \in 1..Len(out.log) :
            \A k \in 1..Len(out.log[i].entries) :
                HashToPath("cwd", HexEncode(out.log[i].entries[k].digest)) \in DOMAIN store

----------------------------------------------------------------------------
(* Properties of the repository *)

\* C2: every file of the store is named by the hex digest of the
\* uncompressed bytes it holds, whatever commands and clone records ran
C2_NameIsDigest ==
    \A p \in DOMAIN store : PathName(p) = HexEncode(Sha1Digest(store[p].data))

\* a clone has published an object it resolved from a delta, next to the
\* base it was resolved against
C2_Witness ==
    /\ out.op = "clone" /\ out.status = "ok" /\ out.why = "delta"
    /\ HashToPath("clone", out.digest) \in DOMAIN store
    /\ Cardinality(DOMAIN store) >= 2

\* the last command published an object: where, and which
WroteObject(o) ==
    /\ o.status = "ok"
    /\ \/ o.op = "hash-object" /\ o.why = "write"
       \/ o.op = "commit-tree"
       \/ o.op = "clone" /\ o.why \in {"regular", "delta"}

WriteRoot(o) == IF o.op = "clone" THEN "clone" ELSE "cwd"

\* C6: no step removes a file of the store or changes the bytes of one, and
\* writing again the object a command has just published returns the same
\* digest and leaves the store as it is
C6_StoreImmutable ==
    [][/\ \A p \in DOMAIN store :
            p \in DOMAIN store' /\ store'[p].data = store[p].data
       /\ (out'.existed /\ WroteObject(out')) => store' = store
       /\ WroteObject(out') =>
            LET again == ObjectWrite(store', WriteRoot(out'), out'.typ, out'.size, out'.data)
            IN again.st = store' /\ HexEncode(again.digest) = out'.digest /\ again.existed
      ]_vars

\* a command has written an object that was in the store already, among
\* other objects
C6_Witness ==
    /\ WroteObject(out) /\ out.existed
    /\ Cardinality(DOMAIN store) >= 2

\* the commit body as claimed: the author line begins "author "
ClaimedCommitBody(tree_hash, message, parent_hash, secs) ==
    <<116, 114, 101, 101, 32>> \o <<tree_hash>> \o <<LF>>
    \o (IF parent_hash # NoParent
        THEN <<112, 97, 114, 101, 110, 116, 32>> \o <<parent_hash>> \o <<LF>>
        ELSE <<>>)
    \o <<97, 117, 116, 104, 111, 114, 32>> \o Identity \o <<SP>> \o Decimal(secs)
    \o <<32, 43, 48, 48, 48, 48, 10>>
    \o <<99, 111, 109, 109, 105, 116, 116, 101, 114, 32>> \o Identity \o <<SP>> \o Decimal(secs)
    \o <<32, 43, 48, 48, 48, 48, 10>>
    \o <<LF>> \o message \o <<LF>>

\* C10 (as claimed): the commit that commit-tree stores is the header
\* "commit <size>\0", size the byte length of the payload, followed by the
\* tree line, the parent line when a parent is given, "author <ident> <secs>
\* +0000", "committer <ident> <secs> +0000", an empty line and the message
C10_CommitBodyFormat ==
    (out.op = "commit-tree" /\ out.status = "ok") =>
        LET body == ClaimedCommitBody(out.args.tree, out.args.message,
                                      out.args.parent, out.args.secs)
        IN store[HashToPath("cwd", out.digest)].data
               = HeaderBytes("commit", ByteLen(body)) \o body

----------------------------------------------------------------------------
(* Properties of the header parser *)

IsDecimal(n) == n # <<>> /\ \A i \in 1..Len(n) : IsDigit(n[i])

\* C4 (as claimed): ObjectFile::read of a file that begins "<k> <n>\0"
\* returns a header if and only if k is blob, tree, commit or tag and n is a
\* non-negative decimal number, and the header it returns is (k, n)
C4_HeaderParse ==
    (out.op = "read" /\ out.why # "opening file") =>
        \A p \in DOMAIN store :
            LET header == Take(store[p].data, IndexOf(store[p].data, NUL) - 1)
                k == Take(header, IndexOf(header, SP) - 1)
                n == Drop(header, IndexOf(header, SP))
            IN /\ out.status = "ok" <=> (k \in {KindName(kind) : kind \in Kinds} /\ IsDecimal(n))
               /\ out.status = "ok" => (KindName(out.typ) = k /\ out.size = DigitsValue(n, 0))

----------------------------------------------------------------------------
(* Properties of clone *)

\* the place of record k in a pack that holds recs after its count
RecordStart(recs, k) == 4 + Len(EncodeRecords(Take(recs, k - 1)))

\* the records the loop has gone past, and the bytes after the cursor
Processed == clone.sent.count - clone.left
Remaining == Len(clone.pack) - clone.pos

\* a pack of N records as a sender builds it: the count, the N records, each
\* a regular object, a REF_DELTA or an OFS_DELTA with its offset, the checksum
WellFormedPack ==
    /\ clone.pack = PackOf(Len(clone.sent.recs), clone.sent.recs, Checksum)
    /\ clone.sent.count = Len(clone.sent.recs)
    /\ \A i \in 1..Len(clone.sent.recs) :
         /\ clone.sent.recs[i].typ # "reserved"
         /\ clone.sent.recs[i].typ = "ofs_delta" => clone.sent.recs[i].ofs # <<>>

\* the loop over the records is over and what follows it has failed
FailedAfterLoop == clone.pc = "failed" /\ clone.left = 0 /\ clone.pos >= 4

\* C11: in a well-formed pack the cursor stands at the first byte of the
\* next record whenever the loop is about to read one (every record gone
\* past being a regular object or a REF_DELTA); the checkout is reached only
\* with exactly 20 bytes after the cursor, and with any other count clone
\* fails with an error before it reads HEAD or touches the target directory.
C11_PackCursor ==
    /\ (WellFormedPack /\ clone.pc = "records")
          => clone.pos = RecordStart(clone.sent.recs, Processed + 1)
    /\ clone.pc = "done" => Remaining = DigestLen
    /\ (FailedAfterLoop /\ Remaining # DigestLen)
          => /\ out.status = "err"
             /\ out.why = "cannot get pack checksum"
             /\ clone.files = GitDirs

\* a regular object and a REF_DELTA on it are gone past, 20 bytes remain
C11_Witness ==
    /\ WellFormedPack
    /\ clone.pc = "records"
    /\ clone.left = 0
    /\ Len(clone.sent.recs) = 2
    /\ clone.sent.recs[2].typ = "ref_delta"
    /\ Len(clone.made) = 2
    /\ Remaining = DigestLen

----------------------------------------------------------------------------
(* Properties of process_delta_object *)

\* an insert of at least one byte, a copy of at least one byte of the base
ValidInstruction(i, B) ==
    IF i.op = "insert" THEN Len(i.bytes) >= 1
    ELSE i.length >= 1 /\ i.offset + i.length <= Len(B)

\* a valid delta on a base whose header size is the length of its payload
ValidDelta(base, d) ==
    /\ d.whole
    /\ base.size = Len(base.data)
    /\ d.src = Len(base.data)
    /\ d.instrs # <<>>
    /\ \A k \in 1..Len(d.instrs) : ValidInstruction(d.instrs[k], base.data)
    /\ d.tgt = TargetOf(d.instrs)

\* the literal bytes of each insert and B[offset .. offset+length] of each
\* copy, in instruction order
RECURSIVE Reconstructed(_, _)
Reconstructed(is, B) ==
    IF is = <<>> THEN <<>>
    ELSE (IF Head(is).op = "insert" THEN Head(is).bytes
          ELSE SubSeq(B, Head(is).offset + 1, Head(is).offset + Head(is).length))
         \o Reconstructed(Tail(is), B)

\* C12: for a base payload B of kind K and a valid delta, process_delta_object
\* publishes an object of kind K whose payload is the concatenation, in
\* instruction order, of the inserts' bytes and the copies' ranges of B, of
\* length exactly the target length.
C12_DeltaResult ==
    (out.op = "delta" /\ ValidDelta(out.args.base, out.args.delta))
       => LET K == out.args.base.typ
              want == Reconstructed(out.args.delta.instrs, out.args.base.data)
              p == HashToPath("clone", HexEncode(SentDigest(K, want)))
          IN /\ out.status = "ok"
             /\ out.typ = K
             /\ out.data = want
             /\ Len(out.data) = out.args.delta.tgt
             /\ out.digest = HexEncode(SentDigest(K, want))
             /\ p \in DOMAIN store
             /\ store[p].finished
             /\ store[p].data = HeaderBytes(K, Len(want)) \o want

\* the whole of a tag "ab" copied and 'c' inserted after it
C12_Witness ==
    /\ out.op = "delta"
    /\ out.status = "ok"
    /\ ValidDelta(out.args.base, out.args.delta)
    /\ out.args.base.typ = "tag"
    /\ out.args.delta.instrs = <<Copy(0, 2), Insert(<<99>>)>>
    /\ out.data = <<97, 98, 99>>

\* a copy whose range is not inside the base
CopyOutside(d, B) ==
    \E k \in 1..Len(d.instrs) :
        d.instrs[k].op = "copy" /\ d.instrs[k].offset + d.instrs[k].length > Len(B)

\* the output is reconstructed and is not as long as the delta declares
WrongTarget(d, B) ==
    d.instrs # <<>> /\ ~CopyOutside(d, B) /\ TargetOf(d.instrs) # d.tgt

\* C13: process_delta_object publishes an object only if the declared source
\* length equals the size in the base object's header and the reconstructed
\* output is as long as the declared target length; if either check fails,
\* or a copy range lies outside the base, it returns an error and the object
\* store is as it was.
C13_DeltaLengthGating ==
    [][(out'.op = "delta" /\ nops' = nops + 1 /\ out'.args.delta.whole)
          => LET base == out'.args.base
                 d == out'.args.delta
             IN /\ store' # store => out'.status = "ok"
                /\ out'.status = "ok"
                      => /\ d.src = base.size
                         /\ TargetOf(d.instrs) = d.tgt
                         /\ Len(out'.data) = d.tgt
                /\ (d.src # base.size \/ CopyOutside(d, base.data)
                       \/ WrongTarget(d, base.data))
                      => out'.status = "err" /\ store' = store]_vars

\* a delta whose instructions make 3 bytes and whose target length is 4 has
\* been refused
C13_Witness ==
    /\ out.op = "delta"
    /\ out.status = "err"
    /\ out.args.delta.whole
    /\ out.args.delta.src = out.args.base.size
    /\ WrongTarget(out.args.delta, out.args.base.data)
    /\ out.args.delta.instrs = <<Copy(0, 2), Insert(<<99>>)>>
    /\ out.args.delta.tgt = 4

\* C20 (as claimed): a delta whose instruction stream holds an instruction
\* byte equal to 0 is rejected: process_delta_object returns an error and
\* publishes no object.
C20_InsertZeroRejected ==
    (out.op = "delta" /\ out.args.delta.whole
        /\ \E k \in 1..Len(out.args.delta.instrs) : out.args.delta.instrs[k] = Insert(<<>>))
       => out.status = "err"

----------------------------------------------------------------------------
(* Properties of the loop over the records *)

\* the pack holds its count and all the records the sender encoded
PackIntact ==
    /\ Len(clone.pack) >= RecordStart(clone.sent.recs, Len(clone.sent.recs) + 1)
    /\ Take(clone.pack, RecordStart(clone.sent.recs, Len(clone.sent.recs) + 1))
          = <<0, 0, 0, clone.sent.count>> \o EncodeRecords(clone.sent.recs)

\* the record the loop reads next, and whether its base is missing now
NextRecord == clone.sent.recs[Processed + 1]
BaseMissing(r) ==
    r.typ = "ref_delta" /\ HashToPath("clone", HexEncode(r.base)) \notin DOMAIN store

\* C14: each step of the loop handles the next record of the stream and no
\* other, and its object is in the store before the following record is
\* read; at a REF_DELTA whose base is not in the store at that moment clone
\* fails with an error, and after a failure no record is processed.
C14_StreamOrder ==
    [][/\ clone.pc = "failed" => (store' = store /\ clone' = clone)
       /\ (clone.pc = "records" /\ clone.left > 0 /\ PackIntact
              /\ Processed < Len(clone.sent.recs))
             => IF BaseMissing(NextRecord)
                THEN clone'.pc = "failed" /\ out'.status = "err" /\ store' = store
                ELSE clone'.pc = "records"
                        => /\ clone'.left = clone.left - 1
                           /\ NextRecord.typ # "ofs_delta"
                                 => /\ clone'.made
                                         = Append(clone.made,
                                                  HexEncode(IntendedDigest(NextRecord)))
                                    /\ DOMAIN store' = DOMAIN store \cup
                                         {HashToPath("clone",
                                                     HexEncode(IntendedDigest(NextRecord)))}
                           /\ NextRecord.typ = "ofs_delta"
                                 => clone'.made = clone.made /\ store' = store]_vars

\* a REF_DELTA came before the blob it is based on: clone has failed at it
\* and the blob, which follows, is not in the store
C14_Witness ==
    /\ clone.pc = "failed"
    /\ PackIntact
    /\ Len(clone.sent.recs) = 2
    /\ clone.sent.recs[1].typ = "ref_delta"
    /\ clone.sent.recs[2] = Regular("blob", BlobAb)
    /\ clone.sent.recs[1].base = IntendedDigest(clone.sent.recs[2])
    /\ Processed = 0
    /\ out.status = "err"
    /\ store = EmptyStore

\* C15 (as claimed): when the loop reads a record of type 6 (header, then
\* its base-offset bytes, then its zlib stream) it writes no object, moves
\* the cursor to the first byte of the following record and goes on with
\* the remaining records without failing.
C15_OfsDeltaSkipped ==
    [][(clone.pc = "records" /\ clone.left > 0 /\ PackIntact
           /\ Processed < Len(clone.sent.recs)
           /\ NextRecord.typ = "ofs_delta" /\ NextRecord.ofs # <<>>)
          => /\ store' = store
             /\ clone'.pc = "records"
             /\ clone'.left = clone.left - 1
             /\ clone'.pos = RecordStart(clone.sent.recs, Processed + 2)]_vars

----------------------------------------------------------------------------
(* Properties of the checkout *)

\* what the entries of a tree stand for below dir: a directory for an entry
\* whose mode starts with '4', with what its tree stands for, and a file
\* with the payload of the object named for any other entry
RECURSIVE ExpectedFiles(_, _)
ExpectedFiles(entries, dir) ==
    IF entries = <<>> THEN {}
    ELSE LET e == Head(entries)
             path == Append(dir, e.name)
         IN (IF Head(e.mode) = 52
             THEN {[path |-> path, kind |-> "dir", data |-> <<>>]}
                  \cup ExpectedFiles(e.kids, path)
             ELSE {[path |-> path, kind |-> "file", data |-> e.data]})
            \cup ExpectedFiles(Tail(entries), dir)

\* the HEAD commit is the commit of this tree
HeadIs(entries) ==
    clone.head = HexEncode(SentDigest("commit", CommitOf(TreePayload(entries))))

----------------------------------------------------------------------------
(* Properties of ObjectFile::from_file *)

\* C17 (as claimed): whatever another process does to the source file
\* between the stat in from_file and the end of streaming, appending to it
\* or truncating it, the object hashed or written has a payload of exactly
\* the size declared in its header.
C17_FromFileSizeAgrees ==
    out.op = "hash-object"
       => /\ ByteLen(out.data) = out.size
          /\ out.why = "write"
                => LET f == store[HashToPath("cwd", out.digest)]
                   IN f.data = HeaderBytes("blob", out.size) \o out.data

----------------------------------------------------------------------------
(* Properties of the header of a pack record *)

\* the first byte whose MSB is clear (0 if there is none)
FirstClear(s) ==
    IF \E i \in 1..Len(s) : s[i] < 128
    THEN CHOOSE i \in 1..Len(s) : s[i] < 128 /\ \A j \in 1..(i - 1) : s[j] >= 128
    ELSE 0

\* the low 7 bits of bytes 2..n shifted left by 4, 11, 18, ...
RECURSIVE ShiftedGroups(_, _)
ShiftedGroups(s, n) ==
    IF n < 2 THEN 0
    ELSE (s[n] % 128) * Pow2(4 + 7 * (n - 2)) + ShiftedGroups(s, n - 1)

\* C18: the type is bits 6..4 of the first byte; the size is the low 4 bits
\* of the first byte plus the low 7 bits of each following byte read,
\* shifted left by 4, 11, 18, ...; the bytes consumed are those up to and
\* including the first byte whose MSB is clear; a type that is none of 1, 2,
\* 3, 4, 6, 7 is an error.
C18_PackHeaderDecoding ==
    (out.op = "header" /\ clone.pack # <<>>)
       => LET s == clone.pack
              code == (s[1] \div 16) % 8
              n == FirstClear(s)
          IN /\ code \notin {1, 2, 3, 4, 6, 7} => out.status = "err"
             /\ (code \in {1, 2, 3, 4, 6, 7} /\ n > 0)
                   => /\ out.status = "ok"
                      /\ TypeCode(out.typ) = code
                      /\ out.size = (s[1] % 16) + ShiftedGroups(s, n)
                      /\ out.data = Drop(s, n)

\* 0x95 0x81 0x01: a commit of size 5 + 1 * 16 + 1 * 2048
C18_Witness ==
    /\ out.op = "header"
    /\ clone.pack = <<149, 129, 1>>
    /\ out.status = "ok"
    /\ out.typ = "commit"
    /\ out.size = 2069
    /\ out.data = <<>>

----------------------------------------------------------------------------
(* Properties of the copy instruction *)

\* the bytes the instructions add up to when a copy whose assembled length
\* is zero stands for 0x10000 bytes
RECURSIVE TargetWithZeroAs64K(_)
TargetWithZeroAs64K(is) ==
    IF is = <<>> THEN 0
    ELSE (IF Head(is).op = "copy" /\ Head(is).length = 0 THEN Pow2(16)
          ELSE Head(is).length)
         + TargetWithZeroAs64K(Tail(is))

\* C21 (as claimed): a copy instruction whose length bytes are all absent
\* or all zero copies 0x10000 bytes of the base from the assembled offset:
\* an object that process_delta_object publishes holds 0x10000 bytes for
\* every such instruction.
C21_CopyZeroIs64K ==
    (out.op = "delta" /\ out.status = "ok" /\ out.args.delta.whole)
       => Len(out.data) = TargetWithZeroAs64K(out.args.delta.instrs)

----------------------------------------------------------------------------
(* Properties of the HEAD commit *)

\* the digest of the first line of a body that is "tree <hex>", <<>> if
\* the body has no such line
RECURSIVE FirstTreeLine(_)
FirstTreeLine(body) ==
    IF body = <<>> THEN <<>>
    ELSE LET lf == IndexOf(body, LF)
             line == IF lf = 0 THEN body ELSE Take(body, lf - 1)
             rest == IF lf = 0 THEN <<>> ELSE Drop(body, lf)
         IN IF Len(line) = 6 /\ Take(line, 5) = KindName("tree") \o <<SP>>
                 /\ IsHex(line[6])
            THEN <<line[6]>>
            ELSE FirstTreeLine(rest)

\* the loop is over, the checksum is there and HEAD names a commit of the
\* store: clone has gone on to the lines of that commit
TreeSelected ==
    /\ clone.pc = "done" \/ FailedAfterLoop
    /\ Remaining = DigestLen
    /\ ObjectRead(store, "clone", clone.head).status = "ok"
    /\ ObjectRead(store, "clone", clone.head).typ = "commit"

\* C22 (as claimed): the checkout uses the digest of the first line of the
\* HEAD commit's body that has the form "tree <hex>", whichever line of the
\* body that is; clone fails for want of a tree only if the body has no
\* such line.
C22_HeadTreeSelection ==
    TreeSelected
       => LET tree == FirstTreeLine(ObjectRead(store, "clone", clone.head).data)
          IN IF tree = <<>> THEN clone.pc = "failed"
             ELSE /\ out.why \notin {"could not get tree from commit",
                                     "failed to parse commit line"}
                  /\ clone.files = ReconstructRepoFiles(store, <<>>, tree, GitDirs).files

----------------------------------------------------------------------------
(* Properties of ls-tree *)

\* the paths of the entries that are no trees, in tree order, each made of
\* the names of the trees around it and its own name
RECURSIVE FullPaths(_, _)
FullPaths(entries, dir) ==
    IF entries = <<>> THEN <<>>
    ELSE LET e == Head(entries)
             path == IF dir = <<>> THEN e.name ELSE dir \o <<SLASH>> \o e.name
         IN (IF e.typ = "tree" THEN FullPaths(e.kids, path) ELSE <<path>>)
            \o FullPaths(Tail(entries), dir)

\* the path a printed line ends with: what follows the tab, or the whole
\* line when only names are printed
PathOfLine(line) == Drop(line, IndexOf(line, 9))

\* the tree listed is the tree of these entries
ListedIs(entries) ==
    /\ out.op = "ls-tree"
    /\ out.args.hash = <<HexEncode(SentDigest("tree", TreePayload(entries)))>>

\* C23 (as claimed): with recurse set, every listed entry at any nesting
\* depth is printed with its full path from the listed root tree: the names
\* of all its ancestor tree entries, joined in order, before its own name.
C23_RecursivePaths ==
    \A entries \in {DeepEntries, OuterEntries} :
        (ListedIs(entries) /\ out.args.recurse)
           => /\ out.status = "ok"
              /\ [k \in 1..Len(out.log) |-> PathOfLine(out.log[k])] = FullPaths(entries, <<>>)

----------------------------------------------------------------------------
(* Properties of HashWriter *)

\* a write is under way and its HashWriter exists
Writing == w.pc \in {"header", "copy", "mkdir", "rename"}

\* C24: ObjectFile::hash and ObjectFile::write return the same digest for
\* the same kind, declared size and payload: at every step of a write the
\* hasher has received exactly the bytes forwarded to the sink, which are
\* the header "<kind> <size>\0" and then the payload in their order, also
\* when the sink accepts a write only partially; the digest write returns is
\* the one hash computes.
C24_HashWriteAgree ==
    /\ Writing
          => /\ w.hasher = Sha1Digest(tmp.data)
             /\ tmp.data \o w.hdr \o w.rest = HeaderBytes(w.typ, w.size) \o w.payload
    /\ (out.op = "write" /\ out.status = "ok")
          => out.digest = HexEncode(ObjectHash(out.typ, out.size, out.data))

\* the sink has taken the header and, of a payload of two bytes handed to
\* it, the first byte only: the second is still to be written
C24_Witness ==
    /\ w.pc = "copy"
    /\ Len(w.payload) = 2
    /\ w.rest = Tail(w.payload)
    /\ tmp.data = HeaderBytes(w.typ, w.size) \o <<Head(w.payload)>>
    /\ w.hasher = Sha1Digest(tmp.data)

----------------------------------------------------------------------------
(* Properties of error reporting *)

\* C19 (as claimed): on a truncated or malformed input (a pack that ends
\* before its object count or inside a record header, a tree entry cut off
\* before its NUL, a delta that ends inside a length or an operand or has
\* no instruction) the operation returns an error value: it never panics.
C19_MalformedIsError == out.status # "panic"

====
